---------------------------- MODULE Spec2Model ----------------------------
(***************************************************************************)
(* A model of tbp (Tiny BASIC in Python): the scanner, the parser, the     *)
(* tree walking interpreter and its line debugger.                         *)
(*                                                                         *)
(* Source text is a TLA+ string and is scanned character by character as   *)
(* Scanner does.  The parser is the recursive descent parser of            *)
(* parser.py over the scanner's tokens.  An Interpreter is a record of its *)
(* fields; every public method is an operator from such a record (and the  *)
(* method's arguments) to the record after the call, and the actions of    *)
(* the specification apply these operators to the variables.               *)
(***************************************************************************)
EXTENDS Integers, Sequences, FiniteSets, TLC

\* A value bound to a name for the rest of a method: K applied to v.
With(v, K(_)) == K(v)

(***************************************************************************)
(* helpers.py: short integers.                                             *)
(***************************************************************************)

\* x & 0xFFFF
Low16(x) == x % 65536

\* x >> 15: Python's arithmetic shift, the floor of x / 2^15.
Shr15(x) == x \div 32768

short_int(x) ==
    With(Low16(x), LAMBDA x_stripped :
        IF Shr15(x) # 0 THEN (x_stripped - 1) - 65535 ELSE x_stripped)

(***************************************************************************)
(* scanner.py.  Indexes are Python's: the first character is at 0.         *)
(***************************************************************************)

Nul == "NUL"

Digits == "0123456789"
UpperLetters == "ABCDEFGHIJKLMNOPQRSTUVWXYZ"
LowerLetters == "abcdefghijklmnopqrstuvwxyz"

\* source[i]
Ch(s, i) == IF 0 <= i /\ i < Len(s) THEN SubSeq(s, i + 1, i + 1) ELSE Nul

\* The position of character c in string set, 0 when it is not there.
RECURSIVE IndexIn(_, _, _)
IndexIn(c, set, i) ==
    IF i > Len(set) THEN 0
    ELSE IF SubSeq(set, i, i) = c THEN i
    ELSE IndexIn(c, set, i + 1)

\* str.isdigit, str.isalpha, str.isspace and str.upper on one character.
IsDigit(c) == IndexIn(c, Digits, 1) # 0
IsAlpha(c) == IndexIn(c, UpperLetters, 1) # 0 \/ IndexIn(c, LowerLetters, 1) # 0
IsSpace(c) == c \in {" ", "\t", "\r", "\n", "\f"}
Upper(c) ==
    With(IndexIn(c, LowerLetters, 1), LAMBDA i :
        IF i # 0 THEN SubSeq(UpperLetters, i, i) ELSE c)

\* int(raw_number) for a string of digits.
RECURSIVE StrToInt(_, _)
StrToInt(raw, acc) ==
    IF Len(raw) = 0 THEN acc
    ELSE StrToInt(SubSeq(raw, 2, Len(raw)),
                  10 * acc + (IndexIn(SubSeq(raw, 1, 1), Digits, 1) - 1))

\* Scanner.scan_tokens appends the line terminator when it is missing.
WithNewline(source) ==
    IF Ch(source, Len(source) - 1) # "\n" THEN source \o "\n" ELSE source

IsAtEnd(s, i) == Ch(s, i) = "\n"

CurrentRaw(s, i) == IF IsAtEnd(s, i) THEN Nul ELSE Ch(s, i)
Current(s, i) == Upper(CurrentRaw(s, i))
Peek(s, i) == IF IsAtEnd(s, i) THEN Nul ELSE Upper(Ch(s, i + 1))

RECURSIVE SkipWhitespace(_, _)
SkipWhitespace(s, i) ==
    IF IsAtEnd(s, i) THEN i
    ELSE IF IsSpace(Current(s, i)) THEN SkipWhitespace(s, i + 1)
    ELSE i

\* Scanner._advance: the index after the call.
Advance(s, i) ==
    IF IsAtEnd(s, i) THEN i
    ELSE IF IsAtEnd(s, i + 1) THEN i + 1
    ELSE SkipWhitespace(s, i + 1)

\* Scanner._advance_preserving_whitespace
AdvancePreservingWhitespace(s, i) == i + 1

BackUp(i) == IF i > 0 THEN i - 1 ELSE i

RECURSIVE ExtractDigits(_, _, _)
ExtractDigits(s, i, raw) ==
    With(Current(s, i), LAMBDA c :
        IF (IsDigit(c) \/ c \in {" ", "\r", "\t"}) /\ ~IsAtEnd(s, i)
        THEN ExtractDigits(s, Advance(s, i), IF IsDigit(c) THEN raw \o c ELSE raw)
        ELSE [idx |-> i, raw |-> raw])

\* Scanner._extract_number
ExtractNumber(s, i) == ExtractDigits(s, SkipWhitespace(s, i), "")

Token(tt, line, value) == [tt |-> tt, line |-> line, value |-> value]

\* A scanner in the middle of a line: the source, the index, the tokens so
\* far, the line number and whether a TbpSyntaxError was raised.
ScanState(s, i, toks, ln, err) ==
    [src |-> s, idx |-> i, toks |-> toks, ln |-> ln, err |-> err]

AddToken(sc, tt, value) ==
    [sc EXCEPT !.toks = Append(@, Token(tt, sc.ln, value))]

ScanError(sc) == [sc EXCEPT !.err = TRUE]

\* Scanner._find_line_number
FindLineNumber(s) ==
    With(ExtractNumber(s, 0), LAMBDA n :
        IF Len(n.raw) > 0
        THEN ScanState(s, n.idx,
                       <<Token("LINE_NUMBER", StrToInt(n.raw, 0), StrToInt(n.raw, 0))>>,
                       StrToInt(n.raw, 0), FALSE)
        ELSE ScanState(s, n.idx, <<>>, 0, FALSE))

\* Scanner._number
ScanNumber(sc) ==
    With(ExtractNumber(sc.src, sc.idx), LAMBDA n :
        [AddToken(sc, "NUMBER", StrToInt(n.raw, 0)) EXCEPT !.idx = BackUp(n.idx)])

RECURSIVE StringBody(_, _)
StringBody(s, i) ==
    IF Peek(s, i) # "\"" /\ ~IsAtEnd(s, i)
    THEN StringBody(s, AdvancePreservingWhitespace(s, i))
    ELSE i

\* Scanner._string
ScanString(sc) ==
    With(sc.src, LAMBDA s :
    With(sc.idx, LAMBDA start :
    With(AdvancePreservingWhitespace(s, start), LAMBDA i1 :
        IF Ch(s, start) = "\"" /\ Ch(s, i1) = "\""
        THEN [AddToken(sc, "STRING", "") EXCEPT !.idx = i1]
        ELSE With(StringBody(s, i1), LAMBDA i2 :
                 IF IsAtEnd(s, i2) THEN ScanError([sc EXCEPT !.idx = i2])
                 ELSE With(Advance(s, i2), LAMBDA i3 :
                          [AddToken(sc, "STRING", SubSeq(s, start + 2, i3))
                              EXCEPT !.idx = i3])))))

\* The loop of Scanner._check_keyword: the index after the keyword's last
\* letter, or -1 when the source does not spell the keyword.
RECURSIVE KeywordEnd(_, _, _, _)
KeywordEnd(s, temp_index, keyword, char_count) ==
    IF char_count >= Len(keyword) THEN temp_index
    ELSE With(Upper(Ch(s, temp_index)), LAMBDA curr_char :
             IF IsSpace(curr_char)
             THEN IF temp_index + 1 >= Len(s) THEN -1
                  ELSE KeywordEnd(s, temp_index + 1, keyword, char_count)
             ELSE IF IsAlpha(curr_char) /\ Ch(keyword, char_count) = curr_char
             THEN IF temp_index + 1 >= Len(s) THEN -1
                  ELSE KeywordEnd(s, temp_index + 1, keyword, char_count + 1)
             ELSE -1)

\* Scanner._check_keyword's answer.
IsKeyword(sc, keyword) == KeywordEnd(sc.src, sc.idx, keyword, 0) # -1

\* Scanner._check_keyword's effect on a match: the index moves to the
\* keyword's last letter and the token is added.
TakeKeyword(sc, keyword, tt) ==
    [AddToken(sc, tt, keyword) EXCEPT
        !.idx = KeywordEnd(sc.src, sc.idx, keyword, 0) - 1]

\* Scanner._read_comment
ReadComment(sc) ==
    With(sc.src, LAMBDA s :
    With(AdvancePreservingWhitespace(s, sc.idx), LAMBDA start_pos :
    With(start_pos + (Len(s) - start_pos - 1), LAMBDA count :
    With(SubSeq(s, start_pos + 1, count), LAMBDA comment :
        [AddToken(sc, "COMMENT", comment) EXCEPT !.idx = start_pos + Len(comment)]))))

\* The keywords Scanner._handle_keyword_or_identifier tries for a first
\* letter, in the order it tries them.
KeywordsFor(first_char) ==
    CASE first_char = "C" -> <<<<"CLEAR", "CLEAR">>>>
      [] first_char = "E" -> <<<<"END", "END">>>>
      [] first_char = "G" -> <<<<"GOTO", "GOTO">>, <<"GOSUB", "GOSUB">>>>
      [] first_char = "I" -> <<<<"IF", "IF">>, <<"INPUT", "INPUT">>>>
      [] first_char = "L" -> <<<<"LET", "LET">>, <<"LIST", "LIST">>>>
      [] first_char = "P" -> <<<<"PRINT", "PRINT">>, <<"PRETURN", "EOF">>,
                               <<"PR", "PRINT">>>>
      [] first_char = "R" -> <<<<"RUN", "RUN">>, <<"RETURN", "RETURN">>,
                               <<"RND", "RND">>, <<"REM", "REM">>>>
      [] first_char = "T" -> <<<<"THEN", "THEN">>>>
      [] first_char = "U" -> <<<<"USR", "USR">>>>
      [] OTHER -> <<>>

RECURSIVE TryKeywords(_, _, _)
TryKeywords(sc, cands, first_char) ==
    IF Len(cands) = 0
    THEN \* not a keyword: a one letter identifier
         AddToken(sc, "IDENTIFIER", first_char)
    ELSE With(Head(cands)[1], LAMBDA keyword :
         With(Head(cands)[2], LAMBDA tt :
             IF IsKeyword(sc, keyword)
             THEN IF tt = "EOF"
                  THEN \* PRETURN: not a keyword, and PR is not tried
                       AddToken(sc, "IDENTIFIER", first_char)
                  ELSE IF tt = "REM"
                  THEN ReadComment(TakeKeyword(sc, keyword, tt))
                  ELSE TakeKeyword(sc, keyword, tt)
             ELSE TryKeywords(sc, Tail(cands), first_char)))

\* Scanner._handle_keyword_or_identifier
HandleKeywordOrIdentifier(sc, first_char) ==
    TryKeywords(sc, KeywordsFor(first_char), first_char)

\* Scanner._match inside _scan_token: the two character operators.
TwoChar(sc, second, tt2, third, tt3, tt1) ==
    IF Peek(sc.src, sc.idx) = second
    THEN [AddToken(sc, tt2, tt2) EXCEPT !.idx = Advance(sc.src, sc.idx)]
    ELSE IF Peek(sc.src, sc.idx) = third
    THEN [AddToken(sc, tt3, tt3) EXCEPT !.idx = Advance(sc.src, sc.idx)]
    ELSE AddToken(sc, tt1, tt1)

\* Scanner._scan_token
ScanToken(sc) ==
    With(Current(sc.src, sc.idx), LAMBDA c :
        CASE c = "(" -> AddToken(sc, "LEFT_PAREN", c)
          [] c = ")" -> AddToken(sc, "RIGHT_PAREN", c)
          [] c = "," -> AddToken(sc, "COMMA", c)
          [] c = "-" -> AddToken(sc, "MINUS", c)
          [] c = "+" -> AddToken(sc, "PLUS", c)
          [] c = ";" -> AddToken(sc, "SEMICOLON", c)
          [] c = ":" -> AddToken(sc, "COLON", c)
          [] c = "*" -> AddToken(sc, "STAR", c)
          [] c = "/" -> AddToken(sc, "SLASH", c)
          [] c = "=" -> AddToken(sc, "EQUAL", c)
          [] c = "<" -> TwoChar(sc, "=", "LESS_EQUAL", ">", "NOT_EQUAL", "LESS")
          [] c = ">" -> TwoChar(sc, "=", "GREATER_EQUAL", "<", "NOT_EQUAL", "GREATER")
          [] c = "\"" -> ScanString(sc)
          [] OTHER -> IF IsDigit(c) THEN ScanNumber(sc)
                      ELSE IF IsAlpha(c) THEN HandleKeywordOrIdentifier(sc, c)
                      ELSE ScanError(sc))

RECURSIVE ScanLoop(_)
ScanLoop(sc) ==
    IF sc.err \/ IsAtEnd(sc.src, sc.idx) THEN sc
    ELSE With(ScanToken(sc), LAMBDA after :
             IF after.err THEN after
             ELSE ScanLoop([after EXCEPT !.idx = Advance(after.src, after.idx)]))

\* Scanner.scan_tokens for a non-empty source: the tokens, the CRLF
\* sentinel last, or a TbpSyntaxError.
scan_tokens(source) ==
    With(ScanLoop(FindLineNumber(WithNewline(source))), LAMBDA done :
        [err |-> done.err,
         tokens |-> Append(done.toks, Token("CRLF", done.ln, "\n"))])

(***************************************************************************)
(* languageitems.py: the nodes of the tree.  A node that holds an integer  *)
(* holds it as short_int left it (LanguageItem.__init__ and the value      *)
(* setter).                                                                *)
(***************************************************************************)

None == [k |-> "None"]

LineNumber(line, value) == [k |-> "LineNumber", line |-> line, value |-> short_int(value)]
Literal(value) == [k |-> "Literal", value |-> short_int(value)]
String(value) == [k |-> "String", value |-> value]
Variable(name) == [k |-> "Variable", name |-> name]
Assignment(variable, expression) ==
    [k |-> "Assignment", variable |-> variable, expression |-> expression]
Unary(operator, expression) ==
    [k |-> "Unary", operator |-> operator, expression |-> expression]
Binary(lhs, operator, rhs) ==
    [k |-> "Binary", lhs |-> lhs, operator |-> operator, rhs |-> rhs]
Group(expression) == [k |-> "Group", expression |-> expression]
Random(expression) == [k |-> "Random", expression |-> expression]
Usr(subroutine, x_reg, a_reg) ==
    [k |-> "Usr", subroutine |-> subroutine, x_reg |-> x_reg, a_reg |-> a_reg]
PrintSeparator(separator) == [k |-> "PrintSeparator", separator |-> separator]
PrintStatement(expressions) == [k |-> "Print", expressions |-> expressions]
RemComment(value) == [k |-> "RemComment", value |-> value]
Let(assign) == [k |-> "Let", assign |-> assign]
Goto(line, target) == [k |-> "Goto", line |-> line, target |-> target]
Gosub(line, target) == [k |-> "Gosub", line |-> line, target |-> target]
Return(line) == [k |-> "Return", line |-> line]
End(line) == [k |-> "End", line |-> line]
List(start_line, end_line) ==
    [k |-> "List", start_line |-> start_line, end_line |-> end_line]
If(lhs, operator, rhs, branch) ==
    [k |-> "If", lhs |-> lhs, operator |-> operator, rhs |-> rhs, branch |-> branch]
Clear(line) == [k |-> "Clear", line |-> line]
Input(variables) == [k |-> "Input", variables |-> variables]
Run(input_values) == [k |-> "Run", input_values |-> input_values]

\* isinstance(item, Branch)
IsBranch(item) == item.k \in {"Goto", "Gosub"}

(***************************************************************************)
(* parser.py.  A parse method is an operator from the tokens and the       *)
(* current position (Parser._current_token) to the node built and the      *)
(* position after it, or to a TbpSyntaxError.                              *)
(***************************************************************************)

MAX_LINE_NUMBER == 32767

Parsed(node, pos) == [err |-> FALSE, node |-> node, pos |-> pos]
SyntaxError == [err |-> TRUE, node |-> None, pos |-> 0]

\* Parser._peek, _previous, _is_at_end, _check, _advance
PeekToken(toks, p) == toks[p + 1]
ParserAtEnd(toks, p) == p = Len(toks) - 1
Check(toks, p, tt) == ~ParserAtEnd(toks, p) /\ PeekToken(toks, p).tt = tt
CheckAny(toks, p, tts) == \E tt \in tts : Check(toks, p, tt)
AdvanceToken(toks, p) == IF ParserAtEnd(toks, p) THEN p ELSE p + 1

\* Parser._verify_line_finished
LineFinished(toks, p) == PeekToken(toks, p).tt = "CRLF"

\* The line number the parser holds (Parser._line_number): that of the
\* LINE_NUMBER token _line matched, 0 for direct execution.
ParserLineNumber(toks) ==
    IF Check(toks, 0, "LINE_NUMBER") THEN PeekToken(toks, 0).line ELSE 0

RelationalOperators ==
    {"EQUAL", "NOT_EQUAL", "LESS", "LESS_EQUAL", "GREATER", "GREATER_EQUAL"}

\* A call of self._expression() or self._statement() on the parser.
RECURSIVE Parser(_, _, _)

RECURSIVE ParseExpression(_, _), ParseTerm(_, _), TermLoop(_, _, _),
          ParseFactor(_, _), FactorLoop(_, _, _), ParseUnary(_, _),
          ParsePrimary(_, _), ParseStatement(_, _), PrintLoop(_, _, _),
          RunLoopArgs(_, _, _), InputLoop(_, _, _), ParseIf(_, _)

\* Parser._expression
ParseExpression(toks, p) == ParseTerm(toks, p)

\* Parser._term
ParseTerm(toks, p) ==
    With(ParseFactor(toks, p), LAMBDA first :
        IF first.err THEN first ELSE TermLoop(toks, first.node, first.pos))

TermLoop(toks, expression, p) ==
    IF CheckAny(toks, p, {"PLUS", "MINUS"})
    THEN With(ParseFactor(toks, p + 1), LAMBDA rhs :
             IF rhs.err THEN rhs
             ELSE TermLoop(toks, Binary(expression, PeekToken(toks, p).tt, rhs.node),
                           rhs.pos))
    ELSE Parsed(expression, p)

\* Parser._factor
ParseFactor(toks, p) ==
    With(ParseUnary(toks, p), LAMBDA first :
        IF first.err THEN first ELSE FactorLoop(toks, first.node, first.pos))

FactorLoop(toks, expression, p) ==
    IF CheckAny(toks, p, {"STAR", "SLASH"})
    THEN With(ParseUnary(toks, p + 1), LAMBDA rhs :
             IF rhs.err THEN rhs
             ELSE FactorLoop(toks, Binary(expression, PeekToken(toks, p).tt, rhs.node),
                             rhs.pos))
    ELSE Parsed(expression, p)

\* Parser._unary taking a whole factor as the operand of the sign.
ParseUnary_over_factor(toks, p) ==
    IF CheckAny(toks, p, {"PLUS", "MINUS"})
    THEN With(ParseFactor(toks, p + 1), LAMBDA rhs :
             IF rhs.err THEN rhs
             ELSE Parsed(Unary(PeekToken(toks, p).tt, rhs.node), rhs.pos))
    ELSE ParsePrimary(toks, p)

\* Parser._unary
ParseUnary(toks, p) ==
    IF CheckAny(toks, p, {"PLUS", "MINUS"})
    THEN With(ParseUnary(toks, p + 1), LAMBDA rhs :
             IF rhs.err THEN rhs
             ELSE Parsed(Unary(PeekToken(toks, p).tt, rhs.node), rhs.pos))
    ELSE ParsePrimary(toks, p)

\* Parser._consume of the closing parenthesis of a call or a group
CloseParen(toks, node, p) ==
    IF ~Check(toks, p, "RIGHT_PAREN") THEN SyntaxError ELSE Parsed(node, p + 1)

\* Parser._random_expression, after the RND token
ParseRandom(toks, p) ==
    IF ~Check(toks, p, "LEFT_PAREN") THEN SyntaxError
    ELSE With(Parser("_expression", toks, p + 1), LAMBDA e :
             IF e.err THEN e ELSE CloseParen(toks, Random(e.node), e.pos))

\* Parser._usr_expression, after the USR token
ParseUsr(toks, p) ==
    IF ~Check(toks, p, "LEFT_PAREN") THEN SyntaxError
    ELSE With(Parser("_expression", toks, p + 1), LAMBDA address :
         IF address.err THEN address
         ELSE IF ~Check(toks, address.pos, "COMMA")
         THEN CloseParen(toks, Usr(address.node, None, None), address.pos)
         ELSE With(Parser("_expression", toks, address.pos + 1), LAMBDA x_reg :
              IF x_reg.err THEN x_reg
              ELSE IF ~Check(toks, x_reg.pos, "COMMA")
              THEN CloseParen(toks, Usr(address.node, x_reg.node, None), x_reg.pos)
              ELSE With(Parser("_expression", toks, x_reg.pos + 1), LAMBDA a_reg :
                   IF a_reg.err THEN a_reg
                   ELSE CloseParen(toks, Usr(address.node, x_reg.node, a_reg.node),
                                   a_reg.pos))))

\* Parser._primary
ParsePrimary(toks, p) ==
    IF Check(toks, p, "NUMBER") THEN Parsed(Literal(PeekToken(toks, p).value), p + 1)
    ELSE IF Check(toks, p, "IDENTIFIER")
    THEN Parsed(Variable(PeekToken(toks, p).value), p + 1)
    ELSE IF Check(toks, p, "RND") THEN ParseRandom(toks, p + 1)
    ELSE IF Check(toks, p, "USR") THEN ParseUsr(toks, p + 1)
    ELSE IF CheckAny(toks, p, {"COMMA", "SEMICOLON"})
    THEN Parsed(PrintSeparator(PeekToken(toks, p).value), p + 1)
    ELSE IF Check(toks, p, "LEFT_PAREN")
    THEN With(Parser("_expression", toks, p + 1), LAMBDA e :
             IF e.err THEN e ELSE CloseParen(toks, Group(e.node), e.pos))
    ELSE SyntaxError

\* A statement that must be the last thing on its line.
Finished(toks, node, p) ==
    IF LineFinished(toks, p) THEN Parsed(node, p) ELSE SyntaxError

\* The loop of Parser._print_statement
PrintLoop(toks, args, p) ==
    IF PeekToken(toks, p).tt \in {"CRLF", "COLON"}
    THEN Finished(toks, PrintStatement(args), IF Check(toks, p, "COLON") THEN p + 1 ELSE p)
    ELSE IF Check(toks, p, "STRING")
    THEN PrintLoop(toks, Append(args, String(PeekToken(toks, p).value)), p + 1)
    ELSE With(Parser("_expression", toks, p), LAMBDA e :
             IF e.err THEN e ELSE PrintLoop(toks, Append(args, e.node), e.pos))

\* Parser._print_statement, after the PRINT token
ParsePrint(toks, p) ==
    IF PeekToken(toks, p).tt = "CRLF" THEN Parsed(PrintStatement(<<>>), AdvanceToken(toks, p))
    ELSE IF PeekToken(toks, p).tt \in {"COMMA", "SEMICOLON", "COLON"} THEN SyntaxError
    ELSE PrintLoop(toks, <<>>, p)

\* Parser._rem_statement, after the REM token
ParseRem(toks, p) ==
    IF PeekToken(toks, p).tt = "COMMENT"
    THEN Finished(toks, RemComment(PeekToken(toks, p).value), AdvanceToken(toks, p))
    ELSE Finished(toks, RemComment(""), p)

\* Parser._let_statement, at the variable
ParseLet(toks, p) ==
    IF PeekToken(toks, p).tt = "CRLF" THEN SyntaxError
    ELSE IF ~Check(toks, p, "IDENTIFIER") THEN SyntaxError
    ELSE IF ~Check(toks, p + 1, "EQUAL") THEN SyntaxError
    ELSE IF PeekToken(toks, p + 2).tt = "CRLF" THEN SyntaxError
    ELSE With(Parser("_expression", toks, p + 2), LAMBDA value :
             IF value.err THEN value
             ELSE Finished(toks,
                           Let(Assignment(Variable(PeekToken(toks, p).value),
                                          value.node)),
                           value.pos))

\* Parser._go_statement, after the GOTO or GOSUB token
ParseGo(toks, p, tt) ==
    IF PeekToken(toks, p).tt = "CRLF" THEN SyntaxError
    ELSE With(Parser("_expression", toks, p), LAMBDA e :
             IF e.err THEN e
             ELSE Finished(toks,
                           IF tt = "GOTO" THEN Goto(PeekToken(toks, p - 1).line, e.node)
                                          ELSE Gosub(PeekToken(toks, p - 1).line, e.node),
                           e.pos))

\* Parser._list_statement, after the LIST token
ParseList(toks, p) ==
    IF PeekToken(toks, p).tt = "CRLF" THEN Finished(toks, List(None, None), p)
    ELSE With(Parser("_expression", toks, p), LAMBDA start :
             IF start.err THEN start
             ELSE IF PeekToken(toks, start.pos).tt = "COMMA"
             THEN With(Parser("_expression", toks, AdvanceToken(toks, start.pos)),
             LAMBDA end :
                      IF end.err THEN end
                      ELSE Finished(toks, List(start.node, end.node), end.pos))
             ELSE Finished(toks, List(start.node, None), start.pos))

\* Parser._if_statement, after the IF token
ParseIf(toks, p) ==
    With(Parser("_expression", toks, p), LAMBDA lhs :
        IF lhs.err THEN lhs
        ELSE IF ~CheckAny(toks, lhs.pos, RelationalOperators) THEN SyntaxError
        ELSE With(Parser("_expression", toks, lhs.pos + 1), LAMBDA rhs :
             IF rhs.err THEN rhs
             ELSE With(Parser("_statement", toks, IF Check(toks, rhs.pos, "THEN")
                                            THEN rhs.pos + 1 ELSE rhs.pos),
                       LAMBDA branch :
                  IF branch.err THEN branch
                  ELSE Finished(toks,
                                If(lhs.node, PeekToken(toks, lhs.pos).tt,
                                   rhs.node, branch.node),
                                branch.pos))))

\* The loop of Parser._input_statement
InputLoop(toks, variables, p) ==
    IF Check(toks, p, "IDENTIFIER")
    THEN With(Append(variables, Variable(PeekToken(toks, p).value)), LAMBDA vars :
             IF Check(toks, p + 1, "COMMA")
             THEN IF PeekToken(toks, p + 2).tt # "IDENTIFIER" THEN SyntaxError
                  ELSE InputLoop(toks, vars, p + 2)
             ELSE Finished(toks, Input(vars), p + 1))
    ELSE Finished(toks, Input(variables), p)

\* Parser._input_statement, after the INPUT token
ParseInput(toks, p) ==
    IF PeekToken(toks, p).tt # "IDENTIFIER" THEN SyntaxError
    ELSE InputLoop(toks, <<>>, p)

\* The loops of Parser._run_statement: the arguments of a direct RUN
RunLoopArgs(toks, expressions, p) ==
    IF PeekToken(toks, p).tt = "CRLF" THEN Parsed(Run(expressions), p)
    ELSE IF PeekToken(toks, p).tt = "COMMA"
    THEN IF ParserAtEnd(toks, AdvanceToken(toks, p)) THEN SyntaxError
         ELSE RunLoopArgs(toks, expressions, AdvanceToken(toks, p))
    ELSE With(Parser("_expression", toks, p), LAMBDA e :
             IF e.err THEN e ELSE RunLoopArgs(toks, Append(expressions, e.node), e.pos))

\* Parser._run_statement, after the RUN token
ParseRun(toks, p) ==
    IF PeekToken(toks, p).tt = "CRLF" THEN Parsed(Run(<<>>), AdvanceToken(toks, p))
    ELSE IF ParserLineNumber(toks) > 0
    THEN \* the arguments of a RUN in a program line are skipped
         Parsed(Run(<<>>), Len(toks) - 1)
    ELSE RunLoopArgs(toks, <<>>, p)

\* Parser._statement
ParseStatement(toks, p) ==
    With(PeekToken(toks, p).line, LAMBDA line :
        IF Check(toks, p, "PRINT") THEN ParsePrint(toks, p + 1)
        ELSE IF Check(toks, p, "REM") THEN ParseRem(toks, p + 1)
        ELSE IF Check(toks, p, "LET") THEN ParseLet(toks, p + 1)
        ELSE IF Check(toks, p, "GOTO") THEN ParseGo(toks, p + 1, "GOTO")
        ELSE IF Check(toks, p, "GOSUB") THEN ParseGo(toks, p + 1, "GOSUB")
        ELSE IF Check(toks, p, "RETURN") THEN Finished(toks, Return(line), p + 1)
        ELSE IF Check(toks, p, "END") THEN Finished(toks, End(line), p + 1)
        ELSE IF Check(toks, p, "LIST") THEN ParseList(toks, p + 1)
        ELSE IF Check(toks, p, "IF") THEN ParseIf(toks, p + 1)
        ELSE IF Check(toks, p, "CLEAR") THEN Finished(toks, Clear(line), p + 1)
        ELSE IF Check(toks, p, "INPUT") THEN ParseInput(toks, p + 1)
        ELSE IF Check(toks, p, "RUN") THEN ParseRun(toks, p + 1)
        ELSE IF Check(toks, p, "IDENTIFIER") THEN ParseLet(toks, p)
        ELSE Parser("_expression", toks, p))

Parser(method, toks, p) ==
    IF method = "_expression" THEN ParseExpression(toks, p)
    ELSE ParseStatement(toks, p)

\* Parser._line without the test of the line number's range.
ParseLine_any_number(toks, p) ==
    IF Check(toks, p, "LINE_NUMBER")
    THEN Parsed(LineNumber(PeekToken(toks, p).line, PeekToken(toks, p).line), p + 1)
    ELSE Parser("_statement", toks, p)

\* Parser._line
ParseLine(toks, p) ==
    IF Check(toks, p, "LINE_NUMBER")
    THEN With(PeekToken(toks, p).line, LAMBDA line :
             IF line <= 0 \/ line > MAX_LINE_NUMBER THEN SyntaxError
             ELSE Parsed(LineNumber(line, line), p + 1))
    ELSE Parser("_statement", toks, p)

RECURSIVE ParseLoop(_, _, _)
ParseLoop(toks, statements, p) ==
    IF ParserAtEnd(toks, p) THEN [err |-> FALSE, statements |-> statements]
    ELSE With(ParseLine(toks, p), LAMBDA statement :
             IF statement.err THEN [err |-> TRUE, statements |-> <<>>]
             ELSE ParseLoop(toks, Append(statements, statement.node), statement.pos))

\* Parser.parse_tokens
parse_tokens(tokens) == ParseLoop(tokens, <<>>, 0)

\* Scanning then parsing one source line, as the interpreter does: the
\* statements of the line, or a TbpSyntaxError from either.
ScanAndParse(source) ==
    With(scan_tokens(source), LAMBDA lex_tokens :
        IF lex_tokens.err THEN [err |-> TRUE, statements |-> <<>>]
        ELSE parse_tokens(lex_tokens.tokens))

(***************************************************************************)
(* interpreter.py.  The interpreter is the record of its fields; a method  *)
(* is an operator from the interpreter before the call to the interpreter  *)
(* after it.  Beside the fields of the class the record carries what a     *)
(* call leaves behind: the exception in flight (raised, message), the      *)
(* value of the node evaluated last (value; none when the visit method     *)
(* returned None), the text handed to print_output (out), the program      *)
(* lines _run_line executed (trace), the number of lines the call may      *)
(* still execute (fuel), what randbelow and read_input will return (rnd,    *)
(* stdin), the prompts read_input showed (prompts) and what the public     *)
(* method returned (returned, text).  More fields observe a call: the      *)
(* state the interpreter was in when interpret_line caught an error        *)
(* (at_raise) with its call stack and pending branch (thrown), the         *)
(* variables, program and breakpoints at the start of the statement        *)
(* executed last, with the instruction pointer and the call stack (entry), *)
(* the number of lines of a buffer that failed (failed), whether a line    *)
(* after the first failure had an effect (later_effect), the one-shot      *)
(* list a step ran with (shots) and the errors the linter reported, with   *)
(* their lines (errorlist).                                                *)
(***************************************************************************)

\* symboltable.py: SymbolTable.default_uninitialized_value
default_uninitialized_value == 57005

\* memory.py: Memory.BLOCK_SIZE
BLOCK_SIZE == 64

\* The SortedDict, dict and bytearray operations the interpreter uses.
EmptyMap == [key \in {} |-> 0]
MapSet(map, key, item) ==
    [k \in DOMAIN map \cup {key} |-> IF k = key THEN item ELSE map[k]]
MapPop(map, key) == [k \in DOMAIN map \ {key} |-> map[k]]
bytearray(size) == [i \in 0..(size - 1) |-> 0]

\* Interpreter.__init__
NewInterpreter ==
    [symbol_table |-> MapSet(EmptyMap, "S", 256),
     lines |-> EmptyMap,
     breakpoints |-> {},
     breakpoints_enabled |-> TRUE,
     the_state |-> "LINE_STATE",
     ip |-> 0,
     branch_ip |-> 0,
     callstack |-> <<>>,
     run_params |-> <<>>,
     mem |-> EmptyMap,
     one_shot_breakpoints |-> <<>>,
     raised |-> "",
     message |-> "",
     value |-> 0,
     none |-> FALSE,
     out |-> <<>>,
     trace |-> <<>>,
     fuel |-> 0,
     rnd |-> 0,
     stdin |-> <<>>,
     prompts |-> <<>>,
     returned |-> TRUE,
     text |-> "",
     at_raise |-> "",
     thrown |-> [callstack |-> <<>>, branch_ip |-> 0],
     entry |-> [symbol_table |-> MapSet(EmptyMap, "S", 256),
                lines |-> EmptyMap,
                breakpoints |-> {},
                ip |-> 0,
                callstack |-> <<>>],
     failed |-> 0,
     later_effect |-> FALSE,
     shots |-> <<>>,
     errorlist |-> <<>>]

\* What a statement may not change when it fails.
Snapshot(self) ==
    [symbol_table |-> self.symbol_table,
     lines |-> self.lines,
     breakpoints |-> self.breakpoints,
     ip |-> self.ip,
     callstack |-> self.callstack]

\* raise TbpSyntaxError / TbpRuntimeError (Interpreter._raise_error), and an
\* exception of another type, which no handler of the program catches.
Raise(self, kind, message) == [self EXCEPT !.raised = kind, !.message = message]
Crash(self, message) == Raise(self, "crash", message)
Raised(self) == self.raised # ""

\* helpers.py: print_output
print_output(self, text) == [self EXCEPT !.out = Append(@, text)]

\* A visit method returning a node whose value is v, and one returning None.
Returns(self, v) == [self EXCEPT !.value = v, !.none = FALSE]
ReturnsNone(self) == [self EXCEPT !.value = 0, !.none = TRUE]

\* str() of an integer, as the f-strings and visit_print_statement use it.
RECURSIVE NatToStr(_)
NatToStr(n) ==
    IF n < 10 THEN SubSeq(Digits, n + 1, n + 1)
    ELSE NatToStr(n \div 10) \o SubSeq(Digits, (n % 10) + 1, (n % 10) + 1)
IntToStr(n) == IF n < 0 THEN "-" \o NatToStr(-n) ELSE NatToStr(n)

\* str.upper() and str.rstrip()
RECURSIVE UpperStr(_)
UpperStr(s) ==
    IF Len(s) = 0 THEN ""
    ELSE Upper(SubSeq(s, 1, 1)) \o UpperStr(SubSeq(s, 2, Len(s)))
RECURSIVE rstrip(_)
rstrip(s) ==
    IF Len(s) > 0 /\ IsSpace(SubSeq(s, Len(s), Len(s)))
    THEN rstrip(SubSeq(s, 1, Len(s) - 1))
    ELSE s

\* StringIO.readline: the lines of a buffer, each with its line terminator.
RECURSIVE ReadLinesFrom(_, _, _)
ReadLinesFrom(source, i, current_line) ==
    IF i > Len(source)
    THEN IF Len(current_line) = 0 THEN <<>> ELSE <<current_line>>
    ELSE IF SubSeq(source, i, i) = "\n"
    THEN <<current_line \o "\n">> \o ReadLinesFrom(source, i + 1, "")
    ELSE ReadLinesFrom(source, i + 1, current_line \o SubSeq(source, i, i))
ReadLines(source) == ReadLinesFrom(source, 1, "")

(***************************************************************************)
(* What is typed at the prompt and loaded from files.  The program of the  *)
(* session has a conditional GOSUB or a nested conditional GOTO on line 1, *)
(* END on line 20 and RETURN on line 32767, the first and the last line    *)
(* number there is; S is 256 or 0, so that the conditions hold or not.     *)
(***************************************************************************)
Sources ==
    {"1 IF S=256 THEN GOSUB 32767",
     "1 IF S>0 IF S=256 GOTO 32767",
     "20 END  ",
     "32767 RETURN",
     "1",
     "32767",
     "0 END",
     "32768 END",
     "LET S=0",
     "LET B=C",
     "CLEAR",
     "RUN"}

Buffers ==
    {"1 IF S=256 THEN GOSUB 32767\n\n20 END\n32767 RETURN",
     "20 END\n\nLET )\nLET S=0\n32767 RETURN\nRUN\n0 END\n"}

\* What is typed in the session that only computes: numbers around the ends
\* of the 16 bit range, as literals and as results.
ArithmeticValues == {0, 1, 32767, 32768, 65535, 65536, 65537, 98304, 131071}
LetSource(x) == "LET A=" \o IntToStr(x)
ArithmeticSources ==
    {LetSource(x) : x \in ArithmeticValues}
    \cup {"LET B=A+A", "LET B=A*3", "LET B=0-A-A", "LET B=-A"}

BreakpointLines == {1, 20, 40}

\* What is typed in the session that runs programs: a program of an
\* assignment or a GOSUB on line 10, END on line 20 and on line 30 a RETURN,
\* an assignment or a branch to a line that is not there (S is 256), with
\* breakpoints.
RunSources ==
    {"10 LET A=7",
     "10 GOSUB 30",
     "20 END",
     "30 GOTO 40",
     "30 GOSUB S",
     "30 RETURN",
     "30 LET A=1",
     "CLEAR",
     "END",
     "RUN"}
RunBreakpointLines == {10, 20, 30}

\* What is typed in the session that steps: a subroutine at line 30 that
\* returns, directly or after THEN, a loop on line 10, and RUN.
StepSources ==
    {"10 GOSUB 30",
     "10 GOTO 10",
     "20 END",
     "30 RETURN",
     "30 IF 1=1 THEN RETURN",
     "40 END",
     "RUN"}
StepBreakpointLines == {10, 20, 30}

\* What is typed in the session that calls subroutines: a subroutine at
\* line 30 that returns or calls the one at line 40 after THEN, and a last
\* line 40 that returns or calls.
GosubSources ==
    {"10 GOSUB 30",
     "20 END",
     "30 RETURN",
     "30 IF 1=1 THEN GOSUB 40",
     "40 RETURN",
     "40 GOSUB 10",
     "RUN"}
GosubBreakpointLines == {10, 30, 40}

\* What is typed in the session that uses the memory: writes of bytes in
\* and out of the accepted range at two addresses of different blocks, and
\* reads at these addresses and at one never written.
UsrAddresses == {5, 6, 70}
UsrWrites ==
    {"A=USR(280,5,0)", "A=USR(280,5,7)", "A=USR(280,5,255)",
     "A=USR(280,5,256)", "A=USR(280,5,257)", "A=USR(280,5,-1)",
     "A=USR(280,70,0)", "A=USR(280,70,7)", "A=USR(280,70,255)",
     "A=USR(280,70,256)", "A=USR(280,70,257)", "A=USR(280,70,-1)"}
UsrReads == {"A=USR(276,5)", "A=USR(276,6)", "A=USR(276,70)"}
UsrSources == UsrWrites \cup UsrReads

\* What is typed in the session of direct statements: lines 10 and 20
\* stored and deleted, branches and a RETURN typed without a line number,
\* a line of blanks, RND of a negative number and of 0, assignments and
\* statements that are errors.
DirectSources ==
    {"10 END",
     "20 END",
     "10",
     "20",
     "GOSUB 10",
     "GOTO 10",
     "GOTO 30",
     "RETURN",
     "   ",
     "A=RND(-5)",
     "A=RND(0)",
     "A=1",
     "B=A",
     "LET )"}

\* What is typed in the session that reads input: a program that asks for
\* A and B, then for C, RUN with no to four arguments, and what the user
\* answers to the prompts of a run (nothing: the input is at its end).
InputSources ==
    {"10 INPUT A,B",
     "20 INPUT C",
     "30 END",
     "RUN",
     "RUN 1",
     "RUN 2,3",
     "RUN 4,5,6,7"}
Answer(text) == [good |-> TRUE, text |-> text]

Answers ==
    {<<>>,
     <<Answer("8")>>,
     <<Answer("8,9")>>,
     <<Answer("8"), Answer("9")>>,
     <<Answer("8"), Answer("9"), Answer("10")>>}

\* What is typed in the session that lists: lines 1, 10 and 20 stored and
\* deleted, and LIST with no, one and two bounds.
ListCommands ==
    {"LIST",
     "LIST 1",
     "LIST 10",
     "LIST 15",
     "LIST 32767",
     "LIST 1,20",
     "LIST 10,20",
     "LIST 10,32767",
     "LIST 20,10",
     "LIST 0,10",
     "LIST 10,32768"}
ListSources == {"1 PRINT 1", "10 LET A=7", "20 END", "1", "10", "20"} \cup ListCommands

\* What is typed in the session that lints: at most one line for each of
\* six line numbers, with reads before and after assignments, branches to
\* line 50 and to line 60, which is never stored, and statements after THEN.
LintSources ==
    {"10 PRINT A,B",
     "10 INPUT A",
     "20 LET A=A+1",
     "20 IF A=1 THEN PRINT B",
     "30 GOTO 50",
     "30 GOSUB 60",
     "30 IF A=1 THEN IF B=1 THEN GOSUB 60",
     "40 CLEAR",
     "40 IF A=1 THEN CLEAR",
     "50 END",
     "32767 PRINT B",
     "32767 LET B=1"}

\* The lines a run may execute before the call is taken not to return, and
\* the longest call stack and one-shot list the session is followed to.
MaxSteps == 6
MaxCallstack == 1
MaxOneShots == 2

\* The longest expression parsed, in tokens.
MaxTokens == 7

\* The assignments INPUT builds from the values of the session that reads
\* input.
InputStatements ==
    {"LET " \o name \o "=" \o value :
        name \in {"A", "B", "C"},
        value \in {"1", "2", "3", "4", "5", "6", "7", "8", "9", "10"}}

\* The lines of the session, each parsed once.
RECURSIVE SeqToSet(_)
SeqToSet(seq) == IF Len(seq) = 0 THEN {} ELSE {Head(seq)} \cup SeqToSet(Tail(seq))
SessionLines ==
    With(Sources \cup ArithmeticSources \cup RunSources \cup InputSources \cup ListSources
                 \cup StepSources
                 \cup GosubSources
                 \cup DirectSources
                 \cup UsrSources
                 \cup LintSources
                 \cup InputStatements
                 \cup UNION {SeqToSet(ReadLines(buffer)) : buffer \in Buffers},
                 LAMBDA typed :
        typed \cup {rstrip(source) \o "\n" : source \in typed})
ParseTable == [source \in SessionLines |-> ScanAndParse(source)]

\* self._parser.parse_tokens(self._scanner.scan_tokens(source))
scan_and_parse(source) ==
    IF source \in SessionLines THEN ParseTable[source] ELSE ScanAndParse(source)

\* The keys of a SortedDict in order, and SortedDict.keys().index
RECURSIVE SortedKeys(_)
SortedKeys(keys) ==
    IF keys = {} THEN <<>>
    ELSE With(CHOOSE k \in keys : \A other \in keys : k <= other, LAMBDA low :
             <<low>> \o SortedKeys(keys \ {low}))

\* SymbolTable.__getitem__ and __setitem__
SymbolInfo(initialized, value) == [initialized |-> initialized, value |-> value]
symbol_table_get(symbol_table, key) ==
    IF key \in DOMAIN symbol_table THEN SymbolInfo(TRUE, symbol_table[key])
    ELSE SymbolInfo(FALSE, default_uninitialized_value)
symbol_table_set(symbol_table, key, value) == MapSet(symbol_table, key, value)

\* Memory.write_memory: the memory after the write.  Storing a value that is
\* not a byte into a bytearray is a ValueError, reported by WriteFails.
WriteFails(value) == value < 0 \/ value > 255
MemoryBlock(mem, address) ==
    With(address \div BLOCK_SIZE, LAMBDA block_index :
        IF block_index \in DOMAIN mem THEN mem
        ELSE MapSet(mem, block_index, bytearray(BLOCK_SIZE)))
write_memory(mem, address, value) ==
    With(address \div BLOCK_SIZE, LAMBDA block_index :
    With(MemoryBlock(mem, address), LAMBDA allocated :
        IF WriteFails(value) THEN allocated
        ELSE [allocated EXCEPT
                 ![block_index][address - (block_index * BLOCK_SIZE)] = value]))

\* Memory.read_memory: the byte read; the memory after it is MemoryBlock.
read_memory(mem, address) ==
    With(address \div BLOCK_SIZE, LAMBDA block_index :
        MemoryBlock(mem, address)[block_index][address - (block_index * BLOCK_SIZE)])

\* Interpreter.initialize_runtime_state
initialize_runtime_state(self) ==
    [self EXCEPT !.the_state = "LINE_STATE",
                 !.ip = 0,
                 !.branch_ip = 0,
                 !.callstack = <<>>,
                 !.run_params = <<>>,
                 !.mem = EmptyMap,
                 !.one_shot_breakpoints = <<>>]

clear_program_keeps_breakpoints(self) ==
    [self EXCEPT !.lines = EmptyMap,
                 !.one_shot_breakpoints = <<>>]

\* Interpreter.clear_program
clear_program(self) ==
    [self EXCEPT !.lines = EmptyMap,
                 !.breakpoints = {},
                 !.one_shot_breakpoints = <<>>]

\* Interpreter._get_next_line: 0 after the last line; keys().index raises a
\* ValueError when the line is not in the program (NoSuchLine).
NoSuchLine(self, line) == line \notin DOMAIN self.lines
get_next_line(self, line) ==
    With({k \in DOMAIN self.lines : k > line}, LAMBDA later :
        IF later = {} THEN 0
        ELSE CHOOSE k \in later : \A other \in later : k <= other)

\* usr constants of the Interpreter class
READ_ROUTINE == 276
WRITE_ROUTINE == 280
MIN_BYTE == 0
MAX_BYTE == 256
MEM_SIZE == 65536

\* LIST constants of the Interpreter class
LOW_NUMBER == 1
HIGH_NUMBER == 32767

RECURSIVE evaluate(_, _), run_loop(_), input_loop(_, _, _),
          assign_input_expression(_, _, _), evaluate_tokens(_, _, _),
          print_loop(_, _, _, _), list_loop(_, _, _, _)

\* Reading .value of what a visit method returned: an AttributeError when it
\* returned None.
NoValue(result) == ~Raised(result) /\ result.none
AttributeError(result) == Crash(result, "AttributeError: 'NoneType' object has no attribute 'value'")

\* Interpreter.visit_variable_expression
visit_variable_expression(self, variable) ==
    With(UpperStr(variable.name), LAMBDA var :
    With(symbol_table_get(self.symbol_table, var), LAMBDA symbol :
        IF ~symbol.initialized
        THEN Raise(self, "TbpRuntimeError",
                   "Error #336: Accessing uninitialized variable '" \o var \o "'.")
        ELSE Returns(self, short_int(symbol.value))))

\* Interpreter.visit_unary_expression
visit_unary_expression(self, unary) ==
    With(evaluate(self, unary.expression), LAMBDA right :
        IF Raised(right) THEN right
        ELSE IF NoValue(right) THEN AttributeError(right)
        ELSE IF unary.operator = "MINUS" THEN Returns(right, short_int(-right.value))
        ELSE Returns(right, short_int(IF right.value < 0 THEN -right.value
                                      ELSE right.value)))

\* Python's floor division
FloorDiv(a, b) == IF b > 0 THEN a \div b ELSE (-a) \div (-b)

\* Interpreter.visit_binary_expression
visit_binary_expression(self, binary) ==
    With(evaluate(self, binary.lhs), LAMBDA left :
    With(evaluate(left, binary.rhs), LAMBDA right :
        IF Raised(left) THEN left
        ELSE IF Raised(right) THEN right
        ELSE IF left.none \/ right.none THEN AttributeError(right)
        ELSE IF binary.operator = "PLUS"
        THEN Returns(right, short_int(left.value + right.value))
        ELSE IF binary.operator = "MINUS"
        THEN Returns(right, short_int(left.value - right.value))
        ELSE IF binary.operator = "STAR"
        THEN Returns(right, short_int(left.value * right.value))
        ELSE IF right.value = 0
        THEN Raise(right, "TbpRuntimeError", "Error #224 Division by zero.")
        ELSE Returns(right, short_int(FloorDiv(left.value, right.value)))))

\* Interpreter.visit_group_expression
visit_group_expression(self, group) ==
    With(evaluate(self, group.expression), LAMBDA result :
        IF Raised(result) THEN result
        ELSE IF NoValue(result) THEN AttributeError(result)
        ELSE Returns(result, short_int(result.value)))

\* Interpreter.visit_random_expression: randbelow raises a ValueError for a
\* bound below zero and otherwise returns a number below the bound.
visit_random_expression(self, random) ==
    With(evaluate(self, random.expression), LAMBDA result :
        IF Raised(result) THEN result
        ELSE IF NoValue(result) THEN AttributeError(result)
        ELSE IF result.value = 0
        THEN Raise(result, "TbpRuntimeError", "Error: #259 RND(0) not allowed.")
        ELSE IF result.value < 0
        THEN Crash(result, "ValueError: Upper bound must be positive.")
        ELSE Returns(result, short_int(result.rnd % result.value)))

\* Interpreter.visit_usr_expression
visit_usr_expression(self, usr) ==
    With(evaluate(self, usr.subroutine), LAMBDA routine :
    With(evaluate(routine, usr.x_reg), LAMBDA x_address :
    With(IF x_address.value < 0 THEN MEM_SIZE + x_address.value
                       ELSE x_address.value, LAMBDA mem_address :
    With(evaluate(x_address, usr.a_reg), LAMBDA val_to_write :
    With(val_to_write.value, LAMBDA the_byte :
        IF Raised(routine) THEN routine
        ELSE IF NoValue(routine) THEN AttributeError(routine)
        ELSE IF routine.value \notin {READ_ROUTINE, WRITE_ROUTINE}
        THEN Raise(routine, "TbpRuntimeError",
                   "Error #360: USR only supports read (276) or write (280) "
                   \o "subroutines, given " \o IntToStr(routine.value))
        ELSE IF usr.x_reg.k = "None"
        THEN Raise(routine, "TbpRuntimeError",
                   "Error #361: USR read/write routines require an address in XReg.")
        ELSE IF Raised(x_address) THEN x_address
        ELSE IF NoValue(x_address) THEN AttributeError(x_address)
        ELSE IF routine.value = WRITE_ROUTINE /\ usr.a_reg.k = "None"
        THEN Raise(x_address, "TbpRuntimeError",
                   "Error #362: USR write routine requires a value in AReg.")
        ELSE IF routine.value = WRITE_ROUTINE
        THEN IF Raised(val_to_write) THEN val_to_write
             ELSE IF NoValue(val_to_write) THEN AttributeError(val_to_write)
             ELSE IF the_byte < MIN_BYTE \/ the_byte > MAX_BYTE
             THEN Raise(val_to_write, "TbpRuntimeError",
                        "Error #362: USR write routine on supports values in "
                        \o "AReg between 0 and 256, given '"
                        \o IntToStr(the_byte) \o "'.")
             ELSE With([val_to_write EXCEPT
                                     !.mem = write_memory(@, mem_address, the_byte)],
                                     LAMBDA written :
                      IF WriteFails(the_byte)
                      THEN Crash(written, "ValueError: byte must be in range(0, 256)")
                      ELSE Returns(written, short_int(the_byte)))
        ELSE Returns([x_address EXCEPT !.mem = MemoryBlock(@, mem_address)],
                     short_int(read_memory(x_address.mem, mem_address))))))))

\* " " * n
RECURSIVE Spaces(_)
Spaces(n) == IF n <= 0 THEN "" ELSE " " \o Spaces(n - 1)

\* The loop of visit_print_statement: the interpreter after evaluating the
\* items from index i on, and the string built.
print_loop(self, expressions, i, builder) ==
    IF i > Len(expressions) THEN [self |-> self, builder |-> builder]
    ELSE With(expressions[i], LAMBDA item :
         With(evaluate(self, item), LAMBDA result :
             IF item.k = "PrintSeparator"
             THEN print_loop(self, expressions, i + 1,
                             IF item.separator = ","
                             THEN builder \o Spaces(8 - (Len(builder) % 8))
                             ELSE builder)
             ELSE IF item.k = "String"
             THEN print_loop(self, expressions, i + 1, builder \o item.value)
             ELSE IF Raised(result) THEN [self |-> result, builder |-> builder]
             ELSE IF NoValue(result)
             THEN [self |-> AttributeError(result), builder |-> builder]
             ELSE print_loop(result, expressions, i + 1,
                             builder \o IntToStr(result.value))))

\* Interpreter.visit_print_statement
visit_print_statement(self, expression) ==
    With(Len(expression.expressions), LAMBDA expression_count :
    With(print_loop(self, expression.expressions, 1, ""), LAMBDA built :
    With(expression.expressions[expression_count], LAMBDA last_item :
        IF expression_count = 0 THEN ReturnsNone(print_output(self, "\n"))
        ELSE IF Raised(built.self) THEN built.self
        ELSE ReturnsNone(print_output(built.self,
                 IF last_item.k # "PrintSeparator" THEN built.builder \o "\n"
                 ELSE built.builder)))))

\* Interpreter.visit_assignment_expression
visit_assignment_expression(self, expression) ==
    With(evaluate(self, expression.expression), LAMBDA exp :
    With(UpperStr(expression.variable.name), LAMBDA var :
        IF Raised(exp) THEN exp
        ELSE IF NoValue(exp) THEN AttributeError(exp)
        ELSE ReturnsNone([exp EXCEPT
                 !.symbol_table = symbol_table_set(@, var, exp.value)])))

\* Interpreter.visit_let_statement
visit_let_statement(self, expression) ==
    With(evaluate(self, expression.assign), LAMBDA assigned :
        IF Raised(assigned) THEN assigned ELSE ReturnsNone(assigned))

\* Interpreter.visit_goto_statement
visit_goto_statement(self, goto) ==
    With(evaluate(self, goto.target), LAMBDA ip_target :
    With(ip_target.value, LAMBDA line :
        IF Raised(ip_target) THEN ip_target
        ELSE IF NoValue(ip_target) THEN AttributeError(ip_target)
        ELSE IF line \notin DOMAIN ip_target.lines
        THEN Raise(ip_target, "TbpRuntimeError",
                   "Error #046: GOTO subroutine does not exist '"
                   \o IntToStr(line) \o "'.")
        ELSE ReturnsNone([ip_target EXCEPT !.branch_ip = line])))

\* Interpreter.visit_gosub_statement pushing the return address before it
\* looks for the target.
visit_gosub_statement_pushing_first(self, gosub) ==
    With(evaluate(self, gosub.target), LAMBDA ip_target :
    With(ip_target.value, LAMBDA line :
    With(get_next_line(ip_target, gosub.line), LAMBDA ip_return :
    With([ip_target EXCEPT !.callstack = Append(@, ip_return),
                           !.branch_ip = line], LAMBDA pushed :
        IF Raised(ip_target) THEN ip_target
        ELSE IF NoValue(ip_target) THEN AttributeError(ip_target)
        ELSE IF NoSuchLine(ip_target, gosub.line)
        THEN Crash(ip_target, "ValueError: " \o IntToStr(gosub.line)
                              \o " is not in list")
        ELSE IF line \notin DOMAIN ip_target.lines
        THEN Raise(pushed, "TbpRuntimeError",
                   "Error #046: GOSUB subroutine does not exist '"
                   \o IntToStr(line) \o "'.")
        ELSE IF ip_return = 0
        THEN Raise(ip_target, "TbpRuntimeError",
                   "Error #345: GOSUB return address is invalid.")
        ELSE ReturnsNone(pushed)))))

\* Interpreter.visit_gosub_statement
visit_gosub_statement(self, gosub) ==
    With(evaluate(self, gosub.target), LAMBDA ip_target :
    With(ip_target.value, LAMBDA line :
    With(get_next_line(ip_target, gosub.line), LAMBDA ip_return :
        IF Raised(ip_target) THEN ip_target
        ELSE IF NoValue(ip_target) THEN AttributeError(ip_target)
        ELSE IF line \notin DOMAIN ip_target.lines
        THEN Raise(ip_target, "TbpRuntimeError",
                   "Error #046: GOSUB subroutine does not exist '"
                   \o IntToStr(line) \o "'.")
        ELSE IF NoSuchLine(ip_target, gosub.line)
        THEN Crash(ip_target, "ValueError: " \o IntToStr(gosub.line)
                              \o " is not in list")
        ELSE IF ip_return = 0
        THEN Raise(ip_target, "TbpRuntimeError",
                   "Error #345: GOSUB return address is invalid.")
        ELSE ReturnsNone([ip_target EXCEPT !.callstack = Append(@, ip_return),
                                           !.branch_ip = line]))))

\* Interpreter.visit_return_statement
visit_return_statement(self, ret) ==
    IF Len(self.callstack) = 0
    THEN Raise(self, "TbpRuntimeError",
               "Error #133: RETURN called with an empty call stack.")
    ELSE ReturnsNone([self EXCEPT
             !.branch_ip = self.callstack[Len(self.callstack)],
             !.callstack = SubSeq(@, 1, Len(@) - 1)])

\* Interpreter.visit_end_statement
visit_end_statement(self, end) ==
    IF self.the_state = "RUNNING_STATE"
    THEN ReturnsNone(initialize_runtime_state(self))
    ELSE ReturnsNone(self)

\* Interpreter.__validate_line_numbers
validate_line_numbers(lines) ==
    ~\E line \in lines : line < LOW_NUMBER \/ line > HIGH_NUMBER

\* The loop of visit_list_statement over the program lines in order.
list_loop(self, keys, low_line, high_line) ==
    IF Len(keys) = 0 THEN self
    ELSE list_loop(IF low_line <= Head(keys) /\ Head(keys) <= high_line
                   THEN print_output(self, self.lines[Head(keys)].source \o "\n")
                   ELSE self,
                   Tail(keys), low_line, high_line)

\* Interpreter.visit_list_statement
visit_list_statement(self, lister) ==
    With(evaluate(self, lister.start_line), LAMBDA param :
    With(IF lister.start_line.k # "None" THEN param ELSE self, LAMBDA after_start :
    With(IF lister.start_line.k # "None" THEN param.value
                    ELSE LOW_NUMBER, LAMBDA low_line :
    With(evaluate(after_start, lister.end_line), LAMBDA param2 :
    With(IF lister.end_line.k # "None" THEN param2 ELSE after_start, LAMBDA after_end :
    With(IF lister.end_line.k # "None" THEN param2.value
                     ELSE HIGH_NUMBER, LAMBDA high_line :
        IF Raised(after_start) THEN after_start
        ELSE IF lister.start_line.k # "None" /\ NoValue(param)
        THEN AttributeError(param)
        ELSE IF Raised(after_end) THEN after_end
        ELSE IF lister.end_line.k # "None" /\ NoValue(param2)
        THEN AttributeError(param2)
        ELSE IF low_line >= high_line
        THEN Raise(after_end, "TbpRuntimeError",
                   "Error #337: LIST parameters must be in logical order, not '"
                   \o IntToStr(low_line) \o "','" \o IntToStr(high_line) \o "'.")
        ELSE IF ~validate_line_numbers({low_line, high_line})
        THEN Raise(after_end, "TbpRuntimeError",
                   "Error #338: LIST parameters must be in the range 1 to 32767 "
                   \o "not '" \o IntToStr(low_line) \o ", "
                   \o IntToStr(high_line) \o "'.")
        ELSE IF (low_line # LOW_NUMBER /\ high_line = HIGH_NUMBER)
                /\ low_line \in DOMAIN after_end.lines
        THEN ReturnsNone(print_output(after_end,
                 after_end.lines[low_line].source \o "\n"))
        ELSE ReturnsNone(list_loop(after_end, SortedKeys(DOMAIN after_end.lines),
                                   low_line, high_line))))))))

\* Interpreter.visit_if_statement
visit_if_statement(self, if_stmt) ==
    With(evaluate(self, if_stmt.lhs), LAMBDA lhs :
    With(evaluate(lhs, if_stmt.rhs), LAMBDA rhs :
    With(lhs.value, LAMBDA lhs_value :
    With(rhs.value, LAMBDA rhs_value :
    With(CASE if_stmt.operator = "EQUAL" -> lhs_value = rhs_value
                    [] if_stmt.operator = "NOT_EQUAL" -> lhs_value # rhs_value
                    [] if_stmt.operator = "LESS" -> lhs_value < rhs_value
                    [] if_stmt.operator = "LESS_EQUAL" -> lhs_value <= rhs_value
                    [] if_stmt.operator = "GREATER" -> lhs_value > rhs_value
                    [] if_stmt.operator = "GREATER_EQUAL" -> lhs_value >= rhs_value
                    [] OTHER -> FALSE, LAMBDA result :
    With(evaluate(rhs, if_stmt.branch), LAMBDA branched :
        IF Raised(lhs) THEN lhs
        ELSE IF Raised(rhs) THEN rhs
        ELSE IF lhs.none \/ rhs.none THEN AttributeError(rhs)
        ELSE IF result
        THEN IF Raised(branched) THEN branched ELSE ReturnsNone(branched)
        ELSE ReturnsNone(rhs)))))))

\* Interpreter.visit_clear_statement
visit_clear_statement(self, clear) ==
    ReturnsNone(clear_program(initialize_runtime_state(self)))

\* Interpreter._hit_breakpoint looking at the one-shot list only.
hit_breakpoint_one_shots_only(self) ==
    With(
            IF \E i \in 1..Len(self.one_shot_breakpoints) :
                   self.one_shot_breakpoints[i] = self.ip
            THEN [self EXCEPT !.one_shot_breakpoints = <<>>,
                              !.the_state = "BREAK_STATE"]
            ELSE self, LAMBDA stopped :
        IF ~self.breakpoints_enabled THEN self
        ELSE IF stopped.the_state = "BREAK_STATE"
        THEN IF stopped.ip \notin DOMAIN stopped.lines
             THEN Crash(stopped, "KeyError: " \o IntToStr(stopped.ip))
             ELSE print_output(stopped,
                               "[" \o stopped.lines[stopped.ip].source \o "]\n")
        ELSE stopped)

\* Interpreter._hit_breakpoint: the interpreter after the call; the call
\* returned True exactly when that interpreter is in BREAK_STATE.  Showing
\* a line that is not in the program is a KeyError.
hit_breakpoint(self) ==
    With(
            IF self.ip \in self.breakpoints
            THEN [print_output(self, "Breakpoint: " \o IntToStr(self.ip) \o "\n")
                     EXCEPT !.the_state = "BREAK_STATE"]
            ELSE IF \E i \in 1..Len(self.one_shot_breakpoints) :
                        self.one_shot_breakpoints[i] = self.ip
            THEN [self EXCEPT !.one_shot_breakpoints = <<>>,
                              !.the_state = "BREAK_STATE"]
            ELSE self, LAMBDA stopped :
        IF ~self.breakpoints_enabled THEN self
        ELSE IF stopped.the_state = "BREAK_STATE"
        THEN IF stopped.ip \notin DOMAIN stopped.lines
             THEN Crash(stopped, "KeyError: " \o IntToStr(stopped.ip))
             ELSE print_output(stopped,
                               "[" \o stopped.lines[stopped.ip].source \o "]\n")
        ELSE stopped)
hit_breakpoint_result(self) ==
    self.breakpoints_enabled /\ hit_breakpoint(self).the_state = "BREAK_STATE"

\* Interpreter._run_line.  A call that has used up the lines it may execute
\* does not return ("diverge").
run_line(self, line) ==
    IF self.fuel = 0 THEN Raise(self, "diverge", "")
    ELSE IF line \notin DOMAIN self.lines
    THEN Crash(self, "KeyError: " \o IntToStr(line))
    ELSE evaluate([self EXCEPT !.fuel = @ - 1, !.trace = Append(@, line),
                               !.entry = Snapshot(self)],
                  self.lines[line].data[2])

\* The while loop of Interpreter._run_program
run_loop(self) ==
    IF self.the_state # "RUNNING_STATE" THEN self
    ELSE With(hit_breakpoint(self), LAMBDA checked :
         With(run_line([self EXCEPT !.breakpoints_enabled = TRUE], self.ip),
         LAMBDA ran :
         With(IF ran.the_state # "RUNNING_STATE" THEN ran
                      ELSE IF ran.branch_ip # 0
                      THEN [ran EXCEPT !.ip = ran.branch_ip, !.branch_ip = 0]
                      ELSE IF NoSuchLine(ran, ran.ip)
                      THEN Crash(ran, "ValueError: " \o IntToStr(ran.ip)
                                      \o " is not in list")
                      ELSE [ran EXCEPT !.ip = get_next_line(ran, ran.ip)],
                      LAMBDA moved :
             IF Raised(checked) THEN checked
             ELSE IF hit_breakpoint_result(self) THEN run_loop(checked)
             ELSE IF Raised(ran) THEN ran
             ELSE IF Raised(moved) THEN moved
             ELSE IF moved.ip = 0 THEN moved
             ELSE run_loop(moved))))

\* Interpreter._run_program without the test that follows the loop.
run_program_without_end_test(self, start_line) ==
    IF start_line = 0 /\ DOMAIN self.lines = {}
    THEN Crash([self EXCEPT !.breakpoints_enabled = TRUE],
               "IndexError: list index out of range")
    ELSE run_loop([self EXCEPT
             !.breakpoints_enabled = (start_line = 0),
             !.ip = IF start_line = 0 THEN get_next_line(self, 0) ELSE start_line,
             !.branch_ip = 0,
             !.the_state = "RUNNING_STATE"])

\* Interpreter._run_program leaving the breakpoints enabled on a restart.
run_program_checking_first_line(self, start_line) ==
    With(
            [self EXCEPT !.breakpoints_enabled = TRUE,
                         !.ip = IF start_line = 0 THEN get_next_line(self, 0)
                                ELSE start_line,
                         !.branch_ip = 0,
                         !.the_state = "RUNNING_STATE"], LAMBDA started :
    With(run_loop(started), LAMBDA done :
        IF start_line = 0 /\ DOMAIN self.lines = {}
        THEN Crash([self EXCEPT !.breakpoints_enabled = TRUE],
                   "IndexError: list index out of range")
        ELSE IF Raised(done) \/ done.the_state # "RUNNING_STATE" THEN done
        ELSE print_output(initialize_runtime_state(done),
                          "Error #335: No END in the program.\n")))

\* Interpreter._run_program.  keys()[0] of an empty program is an IndexError.
run_program(self, start_line) ==
    With(
            IF start_line = 0
            THEN [self EXCEPT !.breakpoints_enabled = TRUE,
                              !.ip = get_next_line(self, 0),
                              !.branch_ip = 0,
                              !.the_state = "RUNNING_STATE"]
            ELSE [self EXCEPT !.breakpoints_enabled = FALSE,
                              !.ip = start_line,
                              !.branch_ip = 0,
                              !.the_state = "RUNNING_STATE"], LAMBDA started :
    With(run_loop(started), LAMBDA done :
        IF start_line = 0 /\ DOMAIN self.lines = {}
        THEN Crash([self EXCEPT !.breakpoints_enabled = TRUE],
                   "IndexError: list index out of range")
        ELSE IF Raised(done) THEN done
        ELSE IF done.the_state = "RUNNING_STATE"
        THEN print_output(initialize_runtime_state(done),
                          "Error #335: No END in the program.\n")
        ELSE done))

\* list.reverse()
RECURSIVE Reverse(_)
Reverse(seq) == IF Len(seq) = 0 THEN <<>> ELSE Append(Reverse(Tail(seq)), Head(seq))

\* Interpreter.visit_run_statement keeping the arguments in the order typed.
visit_run_statement_without_reverse(self, run_stmt) ==
    With(IF self.the_state # "RUNNING_STATE"
               THEN IF DOMAIN self.lines = {}
                    THEN print_output(self,
                                      "Error #013: No program in memory to run.\n")
                    ELSE run_program([self EXCEPT
                             !.run_params = run_stmt.input_values], 0)
               ELSE run_program(initialize_runtime_state(self), 0), LAMBDA ran :
        IF Raised(ran) THEN ran ELSE ReturnsNone(ran))

\* Interpreter.visit_run_statement
visit_run_statement(self, run_stmt) ==
    With(IF self.the_state # "RUNNING_STATE"
               THEN IF DOMAIN self.lines = {}
                    THEN print_output(self,
                                      "Error #013: No program in memory to run.\n")
                    ELSE run_program([self EXCEPT
                             !.run_params = Reverse(run_stmt.input_values)], 0)
               ELSE run_program(initialize_runtime_state(self), 0), LAMBDA ran :
        IF Raised(ran) THEN ran ELSE ReturnsNone(ran))

\* str.split(",")
RECURSIVE SplitFrom(_, _, _)
SplitFrom(text, i, piece) ==
    IF i > Len(text) THEN <<piece>>
    ELSE IF SubSeq(text, i, i) = "," THEN <<piece>> \o SplitFrom(text, i + 1, "")
    ELSE SplitFrom(text, i + 1, piece \o SubSeq(text, i, i))
Split(text) == SplitFrom(text, 1, "")

\* Interpreter._build_input_prompt
RECURSIVE PromptNames(_, _)
PromptNames(var_list, curr_index) ==
    IF curr_index >= Len(var_list) THEN ""
    ELSE var_list[curr_index + 1].name
         \o (IF curr_index + 1 < Len(var_list) THEN "," ELSE "")
         \o PromptNames(var_list, curr_index + 1)
build_input_prompt(index_start, var_list) ==
    UpperStr("[" \o PromptNames(var_list, index_start) \o "]? ")

\* for token in tokens: self._evaluate(token)
evaluate_tokens(self, tokens, i) ==
    IF i > Len(tokens) THEN self
    ELSE With(evaluate([self EXCEPT !.entry = Snapshot(self)], tokens[i]),
    LAMBDA result :
             IF Raised(result) THEN result
             ELSE evaluate_tokens(result, tokens, i + 1))

\* Interpreter._assign_input_expression
assign_input_expression(self, var_name, var_value) ==
    With("LET " \o UpperStr(var_name) \o "=" \o var_value, LAMBDA fake_let :
    With(scan_and_parse(fake_let), LAMBDA tokens :
    With(evaluate_tokens(self, tokens.statements, 1), LAMBDA assigned :
    With(IF tokens.err THEN self
                  ELSE [assigned EXCEPT !.raised = "", !.message = ""], LAMBDA failed :
        IF ~tokens.err /\ assigned.raised \notin {"TbpSyntaxError", "TbpRuntimeError"}
        THEN assigned
        ELSE assign_input_expression(
                 print_output(failed,
                     "Error #351: Invalid value in INPUT: '" \o var_value
                     \o "'. Setting '" \o UpperStr(var_name) \o "=0' as default.\n"),
                 var_name, "0")))))

\* The values of one answer given to the variables from curr_index on.
RECURSIVE assign_raw_list(_, _, _, _, _)
assign_raw_list(self, variables, curr_index, raw_list, raw_index) ==
    IF curr_index < Len(variables) /\ raw_index < Len(raw_list)
    THEN With(assign_input_expression(self, variables[curr_index + 1].name,
                                                 raw_list[raw_index + 1]),
                                                 LAMBDA assigned :
             IF Raised(assigned)
             THEN [self |-> assigned, curr_index |-> curr_index,
                   raw_index |-> raw_index]
             ELSE assign_raw_list(assigned, variables, curr_index + 1, raw_list,
                                  raw_index + 1))
    ELSE [self |-> self, curr_index |-> curr_index, raw_index |-> raw_index]

\* The loop of Interpreter.visit_input_statement.  read_input returns the
\* next answer of stdin, and (False, "") at the end of the input.
input_loop(self, variables, curr_index) ==
    IF curr_index >= Len(variables) THEN self
    ELSE IF Len(self.run_params) > 0
    THEN With(self.run_params[Len(self.run_params)], LAMBDA param :
         With([self EXCEPT !.run_params = SubSeq(@, 1, Len(@) - 1)], LAMBDA popped :
         With(evaluate(popped, param), LAMBDA p_value :
         With(assign_input_expression(p_value,
                             variables[curr_index + 1].name, IntToStr(p_value.value)),
                             LAMBDA assigned :
             IF p_value.raised \in {"TbpSyntaxError", "TbpRuntimeError"}
             THEN initialize_runtime_state(
                      print_output([p_value EXCEPT !.raised = "", !.message = ""],
                          (IF p_value.raised = "TbpSyntaxError" THEN "Syntax Error"
                           ELSE "Runtime Error") \o ": " \o p_value.message \o "\n"))
             ELSE IF Raised(p_value) THEN p_value
             ELSE IF NoValue(p_value) THEN AttributeError(p_value)
             ELSE IF Raised(assigned) THEN assigned
             ELSE input_loop(assigned, variables, curr_index + 1)))))
    ELSE With(build_input_prompt(curr_index, variables), LAMBDA prompt_text :
         With([self EXCEPT !.prompts = Append(@, prompt_text),
                                      !.stdin = IF Len(@) = 0 THEN @ ELSE Tail(@)],
                                      LAMBDA prompted :
         With(Len(self.stdin) > 0 /\ Head(self.stdin).good, LAMBDA input_good :
         With(Split(Head(self.stdin).text), LAMBDA raw_list :
         With(assign_raw_list(prompted, variables, curr_index, raw_list, 0),
         LAMBDA given :
             IF ~input_good
             THEN print_output(initialize_runtime_state(prompted),
                               "Error #350: Aborting RUN from INPUT entry.\n")
             ELSE IF Raised(given.self) THEN given.self
             ELSE input_loop(IF given.raw_index < Len(raw_list)
                             THEN print_output(given.self,
                                      "WARN #001: More input given than variables "
                                      \o "requested by INPUT.\n")
                             ELSE given.self,
                             variables, given.curr_index))))))

\* Interpreter.visit_input_statement
visit_input_statement(self, input_stmt) ==
    With(input_loop(self, input_stmt.variables, 0), LAMBDA done :
        IF Raised(done) THEN done ELSE ReturnsNone(done))

\* Interpreter._evaluate: expression.accept(self)
evaluate(self, expression) ==
    CASE expression.k = "Literal" -> Returns(self, expression.value)
      [] expression.k \in {"String", "RemComment"} -> Returns(self, 0)
      [] expression.k \in {"LineNumber", "PrintSeparator"} -> ReturnsNone(self)
      [] expression.k = "Variable" -> visit_variable_expression(self, expression)
      [] expression.k = "Unary" -> visit_unary_expression(self, expression)
      [] expression.k = "Binary" -> visit_binary_expression(self, expression)
      [] expression.k = "Group" -> visit_group_expression(self, expression)
      [] expression.k = "Random" -> visit_random_expression(self, expression)
      [] expression.k = "Usr" -> visit_usr_expression(self, expression)
      [] expression.k = "Print" -> visit_print_statement(self, expression)
      [] expression.k = "Assignment" -> visit_assignment_expression(self, expression)
      [] expression.k = "Let" -> visit_let_statement(self, expression)
      [] expression.k = "Goto" -> visit_goto_statement(self, expression)
      [] expression.k = "Gosub" -> visit_gosub_statement(self, expression)
      [] expression.k = "Return" -> visit_return_statement(self, expression)
      [] expression.k = "End" -> visit_end_statement(self, expression)
      [] expression.k = "List" -> visit_list_statement(self, expression)
      [] expression.k = "If" -> visit_if_statement(self, expression)
      [] expression.k = "Clear" -> visit_clear_statement(self, expression)
      [] expression.k = "Run" -> visit_run_statement(self, expression)
      [] expression.k = "Input" -> visit_input_statement(self, expression)

\* languageitems.py: ProgramLine
ProgramLine(source, data) == [source |-> source, data |-> data]

TypedErrors == {"TbpSyntaxError", "TbpRuntimeError"}

\* The friendly_name of errors.py
friendly_name(kind) ==
    IF kind = "TbpSyntaxError" THEN "Syntax Error" ELSE "Runtime Error"

\* Interpreter._report_error, which ends the handling of the exception.  Of
\* the text built by build_error_string the first line is kept, without the
\* file line.
report_error(self, source) ==
    print_output([self EXCEPT !.raised = "", !.message = ""],
                 friendly_name(self.raised) \o ": " \o self.message \o "\n")

\* Interpreter._delete_program_line leaving the breakpoint of the line.
delete_program_line_keeps_breakpoint(self, line_num) ==
    IF self.the_state = "BREAK_STATE"
    THEN print_output(self,
             "CLE #09: Deleting program lines while debugging disabled.\n")
    ELSE IF line_num \in DOMAIN self.lines
    THEN [self EXCEPT !.lines = MapPop(@, line_num)]
    ELSE IF self.the_state # "FILE_STATE"
    THEN print_output(self,
             "Error #347: Line number is not in the program: '"
             \o IntToStr(line_num) \o "'\n")
    ELSE self

\* Interpreter._delete_program_line without the test for the debugger.
delete_program_line_while_debugging(self, line_num) ==
    [(IF line_num \in DOMAIN self.lines
      THEN [self EXCEPT !.lines = MapPop(@, line_num)]
      ELSE print_output(self,
               "Error #347: Line number is not in the program: '"
               \o IntToStr(line_num) \o "'\n"))
        EXCEPT !.breakpoints = @ \ {line_num}]

\* Interpreter._delete_program_line
delete_program_line(self, line_num) ==
    IF self.the_state = "BREAK_STATE"
    THEN print_output(self,
             "CLE #09: Deleting program lines while debugging disabled.\n")
    ELSE With(
                 IF line_num \in DOMAIN self.lines
                 THEN [self EXCEPT !.lines = MapPop(@, line_num)]
                 ELSE IF self.the_state # "FILE_STATE"
                 THEN print_output(self,
                          "Error #347: Line number is not in the program: '"
                          \o IntToStr(line_num) \o "'\n")
                 ELSE self, LAMBDA popped :
             [popped EXCEPT !.breakpoints = @ \ {line_num}])

\* The try block of Interpreter.interpret_line without the test for
\* ERROR_FILE_STATE.
interpret_line_try_in_error_state(self, source) ==
    With(scan_and_parse(source), LAMBDA tokens :
        IF Len(source) = 0
        THEN Crash(self, "ValueError: source argument cannot be empty")
        ELSE IF tokens.err THEN Raise(self, "TbpSyntaxError", "")
        ELSE IF Len(tokens.statements) = 0
        THEN Crash(self, "IndexError: list index out of range")
        ELSE IF tokens.statements[1].k = "LineNumber"
        THEN IF Len(tokens.statements) = 1
             THEN delete_program_line(self, tokens.statements[1].value)
             ELSE [self EXCEPT !.lines =
                      MapSet(@, tokens.statements[1].value,
                             ProgramLine(rstrip(source), tokens.statements))]
        ELSE evaluate_tokens(self, tokens.statements, 1))

\* The try block of Interpreter.interpret_line
interpret_line_try(self, source) ==
    With(scan_and_parse(source), LAMBDA tokens :
    With(tokens.statements[1].value, LAMBDA line_num :
        IF Len(source) = 0
        THEN Crash(self, "ValueError: source argument cannot be empty")
        ELSE IF tokens.err THEN Raise(self, "TbpSyntaxError", "")
        ELSE IF self.the_state = "ERROR_FILE_STATE" THEN self
        ELSE IF Len(tokens.statements) = 0
        THEN Crash(self, "IndexError: list index out of range")
        ELSE IF tokens.statements[1].k = "LineNumber"
        THEN IF Len(tokens.statements) = 1
             THEN delete_program_line(self, line_num)
             ELSE [self EXCEPT !.lines =
                      MapSet(@, line_num,
                             ProgramLine(rstrip(source), tokens.statements))]
        ELSE evaluate_tokens(self, tokens.statements, 1)))

\* Interpreter.interpret_line with an except clause that does not reset.
interpret_line_without_reset(self, source) ==
    With(interpret_line_try(self, source), LAMBDA tried :
        IF tried.raised \in TypedErrors
        THEN [report_error(tried, source)
                 EXCEPT !.returned = FALSE, !.at_raise = tried.the_state,
                        !.thrown = [callstack |-> tried.callstack,
                                    branch_ip |-> tried.branch_ip]]
        ELSE IF Raised(tried) THEN tried
        ELSE [tried EXCEPT !.returned = TRUE])

\* Interpreter.interpret_line
interpret_line(self, source) ==
    With(interpret_line_try(self, source), LAMBDA tried :
        IF tried.raised \in TypedErrors
        THEN [report_error(IF tried.the_state # "BREAK_STATE"
                           THEN initialize_runtime_state(tried)
                           ELSE tried, source)
                 EXCEPT !.returned = FALSE, !.at_raise = tried.the_state,
                        !.thrown = [callstack |-> tried.callstack,
                                    branch_ip |-> tried.branch_ip]]
        ELSE IF Raised(tried) THEN tried
        ELSE [tried EXCEPT !.returned = TRUE])

\* Whether a line interpreted after a failure of its buffer had an effect.
Observed(before, after) ==
    IF before.failed > 0
       /\ (Snapshot(after) # Snapshot(before) \/ after.trace # before.trace)
    THEN [after EXCEPT !.later_effect = TRUE]
    ELSE after

\* The while loop of Interpreter.interpret_buffer
RECURSIVE buffer_loop(_, _, _)
buffer_loop(self, file, i) ==
    IF i > Len(file) THEN self
    ELSE With(file[i], LAMBDA current_line :
         With(interpret_line(self, current_line), LAMBDA interpreted :
             IF current_line = "\n" THEN buffer_loop(self, file, i + 1)
             ELSE IF Raised(interpreted) THEN interpreted
             ELSE IF ~interpreted.returned
             THEN buffer_loop([Observed(self, interpreted)
                                  EXCEPT !.the_state = "ERROR_FILE_STATE",
                                         !.text = "False",
                                         !.failed = @ + 1],
                              file, i + 1)
             ELSE buffer_loop(Observed(self, interpreted), file, i + 1)))

\* Interpreter.interpret_buffer without clear_program after a failure.
interpret_buffer_keeps_program(self, source) ==
    With(buffer_loop([self EXCEPT !.the_state = "FILE_STATE", !.text = "True"],
                     ReadLines(source), 1), LAMBDA looped :
        IF Raised(looped) THEN [looped EXCEPT !.the_state = "LINE_STATE"]
        ELSE [(IF looped.the_state = "ERROR_FILE_STATE"
               THEN initialize_runtime_state(looped) ELSE looped)
                 EXCEPT !.the_state = "LINE_STATE",
                        !.returned = (looped.text = "True"),
                        !.text = ""])

\* Interpreter.interpret_buffer: final_return is kept in text while the loop
\* runs; the finally clause sets the state also when an exception leaves.
interpret_buffer(self, source) ==
    With(buffer_loop([self EXCEPT !.the_state = "FILE_STATE",
                                           !.text = "True"],
                              ReadLines(source), 1), LAMBDA looped :
    With(IF looped.the_state = "ERROR_FILE_STATE"
                   THEN initialize_runtime_state(clear_program(looped))
                   ELSE looped, LAMBDA cleared :
        IF Raised(looped) THEN [looped EXCEPT !.the_state = "LINE_STATE"]
        ELSE [cleared EXCEPT !.the_state = "LINE_STATE",
                             !.returned = (looped.text = "True"),
                             !.text = ""]))

\* Interpreter.get_program appending the sources without the newline.
RECURSIVE program_text_joined(_, _)
program_text_joined(self, keys) ==
    IF Len(keys) = 0 THEN ""
    ELSE self.lines[Head(keys)].source \o program_text_joined(self, Tail(keys))
get_program_without_newlines(self) ==
    IF DOMAIN self.lines = {} THEN ""
    ELSE program_text_joined(self, SortedKeys(DOMAIN self.lines))

\* Interpreter.get_program
RECURSIVE program_text(_, _)
program_text(self, keys) ==
    IF Len(keys) = 0 THEN ""
    ELSE self.lines[Head(keys)].source \o "\n" \o program_text(self, Tail(keys))
get_program(self) ==
    IF DOMAIN self.lines = {} THEN ""
    ELSE program_text(self, SortedKeys(DOMAIN self.lines))

\* Interpreter.current_line_number
current_line_number(self) == self.ip

\* Interpreter.set_breakpoint without the test that the line exists.
set_breakpoint_on_any_line(self, line_number) ==
    IF line_number \in self.breakpoints
    THEN [self EXCEPT !.returned = FALSE,
                      !.text = "CLE #14: Breakpoint already set on '"
                               \o IntToStr(line_number) \o "'."]
    ELSE [self EXCEPT !.breakpoints = @ \cup {line_number},
                      !.returned = TRUE,
                      !.text = ""]

\* Interpreter.set_breakpoint
set_breakpoint(self, line_number) ==
    IF line_number \notin DOMAIN self.lines
    THEN [self EXCEPT !.returned = FALSE,
                      !.text = "CLE #06: Line does not exist in the program: '"
                               \o IntToStr(line_number) \o "'."]
    ELSE IF line_number \in self.breakpoints
    THEN [self EXCEPT !.returned = FALSE,
                      !.text = "CLE #14: Breakpoint already set on '"
                               \o IntToStr(line_number) \o "'."]
    ELSE [self EXCEPT !.breakpoints = @ \cup {line_number},
                      !.returned = TRUE,
                      !.text = ""]

\* Interpreter.delete_all_breakpoints
delete_all_breakpoints(self) == [self EXCEPT !.breakpoints = {}]

\* Interpreter.delete_breakpoint
delete_breakpoint(self, line_number) ==
    IF line_number \notin self.breakpoints
    THEN [self EXCEPT !.returned = FALSE,
                      !.text = "CLE #06: Line does not exist in the program: '"
                               \o IntToStr(line_number) \o "'."]
    ELSE [self EXCEPT !.breakpoints = @ \ {line_number},
                      !.returned = TRUE,
                      !.text = ""]

\* Interpreter.at_breakpoint
at_breakpoint(self) == self.the_state = "BREAK_STATE"

\* do_branch and do_if of Interpreter._set_one_shots
do_branch(self, branch) ==
    With(evaluate(self, branch.target), LAMBDA br_address :
    With(br_address.value, LAMBDA line :
        IF Raised(br_address) THEN br_address
        ELSE IF NoValue(br_address) THEN AttributeError(br_address)
        ELSE IF line \notin DOMAIN br_address.lines
        THEN print_output(br_address, "CLE #10: Branch target does not exist '"
                                      \o IntToStr(line) \o "'.\n")
        ELSE [br_address EXCEPT !.one_shot_breakpoints = Append(@, line)]))

\* do_if looking only at the statement after the first condition.
do_if_first_level(self, if_stmt) ==
    IF IsBranch(if_stmt.branch) THEN do_branch(self, if_stmt.branch) ELSE self

RECURSIVE do_if(_, _)
do_if(self, if_stmt) ==
    IF IsBranch(if_stmt.branch) THEN do_branch(self, if_stmt.branch)
    ELSE IF if_stmt.branch.k = "If" THEN do_if(self, if_stmt.branch)
    ELSE self

\* Interpreter._set_one_shots going on to the next line after a RETURN.
set_one_shots_after_return(self) ==
    With(self.lines[self.ip].data[2], LAMBDA stmt :
    With(IF IsBranch(stmt) THEN do_branch(self, stmt)
                    ELSE IF stmt.k = "If" THEN do_if(self, stmt)
                    ELSE IF stmt.k = "Return" /\ Len(self.callstack) # 0
                    THEN [self EXCEPT !.one_shot_breakpoints =
                             Append(@, self.callstack[Len(self.callstack)])]
                    ELSE self, LAMBDA branched :
    With(get_next_line(branched, branched.ip), LAMBDA next_line :
        IF self.ip \notin DOMAIN self.lines
        THEN Crash(self, "KeyError: " \o IntToStr(self.ip))
        ELSE IF stmt.k = "Return" /\ Len(self.callstack) = 0
        THEN print_output(self, "CLE #11: RETURN call stack is empty.")
        ELSE IF Raised(branched) THEN branched
        ELSE IF next_line # 0
        THEN [branched EXCEPT !.one_shot_breakpoints = Append(@, next_line)]
        ELSE branched)))

\* Interpreter._set_one_shots
set_one_shots(self) ==
    With(self.lines[self.ip].data[2], LAMBDA stmt :
    With(IF IsBranch(stmt) THEN do_branch(self, stmt)
                    ELSE IF stmt.k = "If" THEN do_if(self, stmt)
                    ELSE self, LAMBDA branched :
    With(get_next_line(branched, branched.ip), LAMBDA next_line :
        IF self.ip \notin DOMAIN self.lines
        THEN Crash(self, "KeyError: " \o IntToStr(self.ip))
        ELSE IF stmt.k = "Return"
        THEN IF Len(self.callstack) = 0
             THEN print_output(self, "CLE #11: RETURN call stack is empty.")
             ELSE [self EXCEPT !.one_shot_breakpoints =
                      Append(@, self.callstack[Len(self.callstack)])]
        ELSE IF Raised(branched) THEN branched
        ELSE IF next_line # 0
        THEN [branched EXCEPT !.one_shot_breakpoints = Append(@, next_line)]
        ELSE branched)))

\* Interpreter.break_continue resetting the runtime state on an error.
break_continue_resetting(self, step) ==
    With(IF step = "STEP" THEN set_one_shots(self) ELSE self, LAMBDA shots :
    With(IF Raised(shots) THEN shots
               ELSE run_program([shots EXCEPT !.shots = shots.one_shot_breakpoints],
                                shots.ip), LAMBDA ran :
        IF ran.raised \in TypedErrors
        THEN initialize_runtime_state(report_error(ran, "Debugger evaluation"))
        ELSE ran))

\* Interpreter.break_continue
break_continue(self, step) ==
    With(IF step = "STEP" THEN set_one_shots(self) ELSE self, LAMBDA shots :
    With(IF Raised(shots) THEN shots
               ELSE run_program([shots EXCEPT !.shots = shots.one_shot_breakpoints],
                                shots.ip), LAMBDA ran :
        IF ran.raised \in TypedErrors THEN report_error(ran, "Debugger evaluation")
        ELSE ran))

(***************************************************************************)
(* linter.py.  The linter is the record of its fields and of the node the  *)
(* visit method called last returned (returned).  Of the text built by     *)
(* build_error_string the first line is kept.                              *)
(***************************************************************************)

\* Linter.ErrorItem
ErrorItem(line, msg) == [line |-> line, msg |-> msg]

\* Linter.__init__
common_return == PrintSeparator("!")
NewLinter ==
    [lines |-> EmptyMap,
     curr_line |-> ProgramLine("", <<>>),
     initialized_vars |-> {},
     had_end_statement |-> FALSE,
     errorlist |-> <<>>,
     potential_errors |-> EmptyMap,
     returned |-> common_return]

\* SortedList.add of the error list, whose key is the line of the item: the
\* item goes after the items whose line is not greater.
RECURSIVE errorlist_add(_, _)
errorlist_add(errorlist, item) ==
    IF Len(errorlist) = 0 THEN <<item>>
    ELSE IF Head(errorlist).line > item.line THEN <<item>> \o errorlist
    ELSE <<Head(errorlist)>> \o errorlist_add(Tail(errorlist), item)

\* The keys of the SortedDict of potential errors in order.
RECURSIVE SortedNames(_)
SortedNames(names) ==
    IF names = {} THEN <<>>
    ELSE With(CHOOSE n \in names : \A other \in names :
                  IndexIn(n, UpperLetters, 1) <= IndexIn(other, UpperLetters, 1),
              LAMBDA low : <<low>> \o SortedNames(names \ {low}))

\* Linter.visit_variable_expression
lint_variable_expression(linter, variable) ==
    With(UpperStr(variable.name), LAMBDA name :
    With(ErrorItem(linter.curr_line.data[1].line,
                   "LINT #04: Potentially uninitialized variable '" \o name
                   \o "'.\n"), LAMBDA the_item :
        [(IF name \notin linter.initialized_vars
          THEN [linter EXCEPT !.potential_errors =
                   IF name \notin DOMAIN @
                   THEN MapSet(@, name, <<the_item>>)
                   ELSE MapSet(@, name, Append(@[name], the_item))]
          ELSE linter) EXCEPT !.returned = variable]))

\* Linter.visit_clear_statement
lint_clear_statement(linter, clear) ==
    [linter EXCEPT
        !.errorlist = errorlist_add(@,
            ErrorItem(linter.curr_line.data[1].line,
                      "LINT #02: CLEAR must never be in a program.\n")),
        !.returned = common_return]

\* The second half of Linter._check_goto_gosub, after the target was visited.
lint_check_target(linter, cmd) ==
    IF linter.returned.k = "Literal"
       /\ linter.returned.value \notin DOMAIN linter.lines
    THEN [linter EXCEPT
             !.errorlist = errorlist_add(@,
                 ErrorItem(linter.curr_line.data[1].line,
                           "LINT #03: " \o cmd \o " target not in program: '"
                           \o IntToStr(linter.returned.value) \o "'.\n"))]
    ELSE linter

\* The loop of Linter.visit_input_statement
RECURSIVE lint_input_loop(_, _)
lint_input_loop(linter, variables) ==
    IF Len(variables) = 0 THEN linter
    ELSE lint_input_loop([linter EXCEPT !.initialized_vars =
                             @ \cup {UpperStr(Head(variables).name)}],
                         Tail(variables))

\* node.accept(linter): the visit methods of Linter, and the loop of
\* Linter.visit_print_statement.
RECURSIVE lint_accept(_, _)
RECURSIVE lint_accept_all(_, _)
lint_accept_all(linter, expressions) ==
    IF Len(expressions) = 0 THEN linter
    ELSE lint_accept_all(lint_accept(linter, Head(expressions)),
                         Tail(expressions))
lint_accept(linter, node) ==
    CASE node.k = "Print" ->
            [lint_accept_all(linter, node.expressions) EXCEPT
                !.returned = common_return]
      [] node.k \in {"Literal", "String"} ->
            [linter EXCEPT !.returned = node]
      [] node.k = "Let" ->
            [lint_accept(linter, node.assign) EXCEPT !.returned = common_return]
      [] node.k = "Assignment" ->
            [lint_accept(linter, node.expression) EXCEPT
                !.initialized_vars = @ \cup {UpperStr(node.variable.name)},
                !.returned = common_return]
      [] node.k = "Variable" -> lint_variable_expression(linter, node)
      [] node.k = "Unary" ->
            [lint_accept(linter, node.expression) EXCEPT
                !.returned = common_return]
      [] node.k = "Binary" ->
            [lint_accept(lint_accept(linter, node.lhs), node.rhs) EXCEPT
                !.returned = node]
      [] node.k = "Group" -> lint_accept(linter, node.expression)
      [] node.k = "Random" ->
            [lint_accept(linter, node.expression) EXCEPT
                !.returned = common_return]
      [] node.k = "Usr" ->
            With(IF node.a_reg.k # "None" THEN lint_accept(linter, node.a_reg)
                 ELSE linter, LAMBDA after_a :
                [(IF node.x_reg.k # "None" THEN lint_accept(after_a, node.x_reg)
                  ELSE after_a) EXCEPT !.returned = common_return])
      [] node.k = "Goto" ->
            [lint_check_target(lint_accept(linter, node.target), "GOTO") EXCEPT
                !.returned = common_return]
      [] node.k = "Gosub" ->
            [lint_check_target(lint_accept(linter, node.target), "GOSUB") EXCEPT
                !.returned = common_return]
      [] node.k = "End" ->
            [linter EXCEPT !.had_end_statement = TRUE,
                           !.returned = common_return]
      [] node.k = "If" ->
            [lint_accept(lint_accept(linter, node.lhs), node.rhs) EXCEPT
                !.returned = common_return]
      [] node.k = "Clear" -> lint_clear_statement(linter, node)
      [] node.k = "Input" ->
            [lint_input_loop(linter, node.variables) EXCEPT
                !.returned = common_return]
      [] OTHER -> [linter EXCEPT !.returned = common_return]

\* The loops of Linter.lint_program: over the program, over the initialized
\* variables, over the potential errors and over the error list.
RECURSIVE lint_lines(_, _)
lint_lines(linter, keys) ==
    IF Len(keys) = 0 THEN linter
    ELSE lint_lines(lint_accept([linter EXCEPT
                                    !.curr_line = linter.lines[Head(keys)]],
                                linter.lines[Head(keys)].data[2]),
                    Tail(keys))
RECURSIVE lint_add_errors(_, _)
lint_add_errors(errorlist, errors) ==
    IF Len(errors) = 0 THEN errorlist
    ELSE lint_add_errors(errorlist_add(errorlist, Head(errors)), Tail(errors))
RECURSIVE lint_add_potential(_, _)
lint_add_potential(linter, names) ==
    IF Len(names) = 0 THEN linter
    ELSE lint_add_potential(
             [linter EXCEPT !.errorlist =
                 lint_add_errors(@, linter.potential_errors[Head(names)])],
             Tail(names))

\* Linter.lint_program, up to the report.
linter_lint_program(linter, program, strict) ==
    With(lint_lines([linter EXCEPT !.lines = program],
                    SortedKeys(DOMAIN program)), LAMBDA walked :
    With(IF ~walked.had_end_statement
         THEN [walked EXCEPT !.errorlist = errorlist_add(@,
                  ErrorItem(32767,
                            "LINT #01: Missing END statement in the program.\n"))]
         ELSE walked, LAMBDA ended :
    With(IF ~strict
         THEN [ended EXCEPT !.potential_errors =
                  [name \in DOMAIN @ \ ended.initialized_vars |-> @[name]]]
         ELSE ended, LAMBDA dropped :
        lint_add_potential(dropped, SortedNames(DOMAIN dropped.potential_errors)))))

\* The report of Linter.lint_program.
RECURSIVE lint_report(_, _)
lint_report(self, errorlist) ==
    IF Len(errorlist) = 0 THEN self
    ELSE lint_report(print_output(self, Head(errorlist).msg), Tail(errorlist))

\* Interpreter.lint_program
lint_program(self, strict) ==
    IF DOMAIN self.lines = {} THEN self
    ELSE With(linter_lint_program(NewLinter, self.lines, strict), LAMBDA linter :
             lint_report([self EXCEPT !.errorlist = linter.errorlist],
                         linter.errorlist))

(***************************************************************************)
(* The session: an interpreter and the calls made on it.                   *)
(***************************************************************************)
VARIABLES symbol_table, lines, breakpoints, breakpoints_enabled, the_state,
          ip, branch_ip, callstack, run_params, mem, one_shot_breakpoints,
          call

vars == <<symbol_table, lines, breakpoints, breakpoints_enabled, the_state,
          ip, branch_ip, callstack, run_params, mem, one_shot_breakpoints,
          call>>

\* The interpreter the variables hold, about to take a call.
Self ==
    [NewInterpreter EXCEPT
        !.symbol_table = symbol_table,
        !.lines = lines,
        !.breakpoints = breakpoints,
        !.breakpoints_enabled = breakpoints_enabled,
        !.the_state = the_state,
        !.ip = ip,
        !.branch_ip = branch_ip,
        !.callstack = callstack,
        !.run_params = run_params,
        !.mem = mem,
        !.one_shot_breakpoints = one_shot_breakpoints,
        !.fuel = MaxSteps,
        !.entry = [symbol_table |-> symbol_table,
                   lines |-> lines,
                   breakpoints |-> breakpoints,
                   ip |-> ip,
                   callstack |-> callstack]]

\* What a call leaves to look at.
Call(op, source, line_number, after) ==
    [op |-> op,
     source |-> source,
     line_number |-> line_number,
     raised |-> after.raised,
     returned |-> after.returned,
     text |-> after.text,
     out |-> after.out,
     prompts |-> after.prompts,
     trace |-> after.trace,
     at_raise |-> after.at_raise,
     thrown |-> after.thrown,
     entry |-> after.entry,
     failed |-> after.failed,
     later_effect |-> after.later_effect,
     shots |-> after.shots,
     errorlist |-> after.errorlist]

\* The call returned, or left with an exception no one catches: then the
\* process is gone.  A call that does not return is no step.
Returns_(op, source, line_number, after) ==
    /\ call.raised # "crash"
    /\ after.raised # "diverge"
    /\ Len(after.callstack) <= MaxCallstack
    /\ Len(after.one_shot_breakpoints) <= MaxOneShots
    /\ symbol_table' = after.symbol_table
    /\ lines' = after.lines
    /\ breakpoints' = after.breakpoints
    /\ breakpoints_enabled' = after.breakpoints_enabled
    /\ the_state' = after.the_state
    /\ ip' = after.ip
    /\ branch_ip' = after.branch_ip
    /\ callstack' = after.callstack
    /\ run_params' = after.run_params
    /\ mem' = after.mem
    /\ one_shot_breakpoints' = after.one_shot_breakpoints
    /\ call' = Call(op, source, line_number, after)

Init ==
    /\ symbol_table = NewInterpreter.symbol_table
    /\ lines = NewInterpreter.lines
    /\ breakpoints = NewInterpreter.breakpoints
    /\ breakpoints_enabled = NewInterpreter.breakpoints_enabled
    /\ the_state = NewInterpreter.the_state
    /\ ip = NewInterpreter.ip
    /\ branch_ip = NewInterpreter.branch_ip
    /\ callstack = NewInterpreter.callstack
    /\ run_params = NewInterpreter.run_params
    /\ mem = NewInterpreter.mem
    /\ one_shot_breakpoints = NewInterpreter.one_shot_breakpoints
    /\ call = Call("__init__", "", 0, NewInterpreter)

InterpretLine(source) ==
    Returns_("interpret_line", source, 0, interpret_line(Self, source))

InterpretBuffer(source) ==
    Returns_("interpret_buffer", source, 0, interpret_buffer(Self, source))

SetBreakpoint(line_number) ==
    Returns_("set_breakpoint", "", line_number, set_breakpoint(Self, line_number))

DeleteBreakpoint(line_number) ==
    Returns_("delete_breakpoint", "", line_number,
             delete_breakpoint(Self, line_number))

DeleteAllBreakpoints ==
    Returns_("delete_all_breakpoints", "", 0, delete_all_breakpoints(Self))

\* The debugger's step and continue commands, given at a breakpoint.
BreakContinue(step) ==
    /\ at_breakpoint(Self)
    /\ Returns_("break_continue", step, 0, break_continue(Self, step))

\* Saving the program and loading it again: get_program, clear_program and
\* interpret_buffer on the text saved.
SaveAndLoad ==
    Returns_("save_and_load", get_program(Self), 0,
             interpret_buffer(clear_program(Self), get_program(Self)))

Next ==
    \/ \E source \in Sources : InterpretLine(source)
    \/ \E source \in Buffers : InterpretBuffer(source)
    \/ \E line_number \in BreakpointLines : SetBreakpoint(line_number)
    \/ \E line_number \in BreakpointLines : DeleteBreakpoint(line_number)
    \/ DeleteAllBreakpoints
    \/ \E step \in {"RUN", "STEP"} : BreakContinue(step)
    \/ SaveAndLoad

Spec == Init /\ [][Next]_vars

\* The session that only computes.
NextArithmetic == \E source \in ArithmeticSources : InterpretLine(source)

SpecArithmetic == Init /\ [][NextArithmetic]_vars

\* The session that runs programs and debugs them.
NextRun ==
    \/ \E source \in RunSources : InterpretLine(source)
    \/ \E line_number \in RunBreakpointLines : SetBreakpoint(line_number)
    \/ \E step \in {"RUN", "STEP"} : BreakContinue(step)

SpecRun == Init /\ [][NextRun]_vars

\* The session that steps through a program.
NextStep ==
    \/ \E source \in StepSources : InterpretLine(source)
    \/ \E line_number \in StepBreakpointLines : SetBreakpoint(line_number)
    \/ \E step \in {"RUN", "STEP"} : BreakContinue(step)

SpecStep == Init /\ [][NextStep]_vars

\* The session that calls subroutines.
NextGosub ==
    \/ \E source \in GosubSources : InterpretLine(source)
    \/ \E line_number \in GosubBreakpointLines : SetBreakpoint(line_number)
    \/ \E step \in {"RUN", "STEP"} : BreakContinue(step)

SpecGosub == Init /\ [][NextGosub]_vars

\* The session that writes and reads the memory.
NextUsr == \E source \in UsrSources : InterpretLine(source)

SpecUsr == Init /\ [][NextUsr]_vars

\* The session of direct statements.
NextDirect == \E source \in DirectSources : InterpretLine(source)

SpecDirect == Init /\ [][NextDirect]_vars

\* interpret_line with the answers the user will give to its prompts.
InterpretLineAnswering(source, answers) ==
    Returns_("interpret_line", source, 0,
             interpret_line([Self EXCEPT !.stdin = answers], source))

\* The session that reads input.
NextInput ==
    \E source \in InputSources, answers \in Answers :
        InterpretLineAnswering(source, answers)

SpecInput == Init /\ [][NextInput]_vars

\* The session that lists.
NextList == \E source \in ListSources : InterpretLine(source)

SpecList == Init /\ [][NextList]_vars

LintProgram(strict) ==
    Returns_("lint_program", IF strict THEN "strict" ELSE "", 0,
             lint_program(Self, strict))

\* The session that lints.
NextLint ==
    \/ \E source \in LintSources : InterpretLine(source)
    \/ \E strict \in BOOLEAN : LintProgram(strict)

SpecLint == Init /\ [][NextLint]_vars

(***************************************************************************)
(* The grammar of expressions, as the documentation gives it:              *)
(*     expression := term (('+'|'-') term)*                                *)
(*     term       := unary (('*'|'/') unary)*                              *)
(*     unary      := ('+'|'-') unary | primary                             *)
(*     primary    := variable | '(' expression ')'                         *)
(* with the operators of one level associating to the left.  A derivation  *)
(* is a sequence of tokens with the tree the grammar gives it; level n of  *)
(* the table holds the derivations of n tokens of each symbol.             *)
(***************************************************************************)
Derivation(tokens, tree) == [tokens |-> tokens, tree |-> tree]
Operands == {Derivation(<<Token("IDENTIFIER", 0, "A")>>, Variable("A"))}
Signs == {Token("PLUS", 0, "+"), Token("MINUS", 0, "-")}
Times == {Token("STAR", 0, "*"), Token("SLASH", 0, "/")}

Primaries(n, table) ==
    (IF n = 1 THEN Operands ELSE {})
    \cup (IF n >= 3
          THEN {Derivation(<<Token("LEFT_PAREN", 0, "(")>> \o inner.tokens
                               \o <<Token("RIGHT_PAREN", 0, ")")>>,
                           Group(inner.tree)) :
                   inner \in table[n - 2].expression}
          ELSE {})
Unaries(n, table) ==
    Primaries(n, table)
    \cup (IF n >= 2
          THEN {Derivation(<<sign>> \o operand.tokens,
                           Unary(sign.tt, operand.tree)) :
                   sign \in Signs, operand \in table[n - 1].unary}
          ELSE {})
Terms(n, table, unaries) ==
    unaries
    \cup UNION {{Derivation(lhs.tokens \o <<operator>> \o rhs.tokens,
                            Binary(lhs.tree, operator.tt, rhs.tree)) :
                    lhs \in table[k].term, operator \in Times,
                    rhs \in table[n - 1 - k].unary} : k \in 1..(n - 2)}
Expressions(n, table, terms) ==
    terms
    \cup UNION {{Derivation(lhs.tokens \o <<operator>> \o rhs.tokens,
                            Binary(lhs.tree, operator.tt, rhs.tree)) :
                    lhs \in table[k].expression, operator \in Signs,
                    rhs \in table[n - 1 - k].term} : k \in 1..(n - 2)}
GrammarLevel(n, table) ==
    With(Unaries(n, table), LAMBDA unaries :
    With(Terms(n, table, unaries), LAMBDA terms :
        [unary |-> unaries,
         term |-> terms,
         expression |-> Expressions(n, table, terms)]))
RECURSIVE GrammarTable(_, _)
GrammarTable(n, table) ==
    IF n > MaxTokens THEN table
    ELSE GrammarTable(n + 1, Append(table, GrammarLevel(n, table)))
WellFormed ==
    With(GrammarTable(1, <<>>), LAMBDA table :
        UNION {table[n].expression : n \in 1..MaxTokens})

\* The parser is handed the tokens of a well-formed expression, as the
\* scanner ends them, and parses them with Parser._expression.
InitParse ==
    /\ symbol_table = NewInterpreter.symbol_table
    /\ lines = NewInterpreter.lines
    /\ breakpoints = NewInterpreter.breakpoints
    /\ breakpoints_enabled = NewInterpreter.breakpoints_enabled
    /\ the_state = NewInterpreter.the_state
    /\ ip = NewInterpreter.ip
    /\ branch_ip = NewInterpreter.branch_ip
    /\ callstack = NewInterpreter.callstack
    /\ run_params = NewInterpreter.run_params
    /\ mem = NewInterpreter.mem
    /\ one_shot_breakpoints = NewInterpreter.one_shot_breakpoints
    /\ \E derivation \in WellFormed :
          call = [op |-> "scan_tokens",
                  tokens |-> Append(derivation.tokens, Token("CRLF", 0, "\n")),
                  grammar |-> derivation.tree,
                  parsed |-> SyntaxError]

ParseTokens ==
    /\ call.op = "scan_tokens"
    /\ call' = [call EXCEPT !.op = "_expression",
                            !.parsed = ParseExpression(call.tokens, 0)]
    /\ UNCHANGED <<symbol_table, lines, breakpoints, breakpoints_enabled,
                   the_state, ip, branch_ip, callstack, run_params, mem,
                   one_shot_breakpoints>>

SpecParse == InitParse /\ [][ParseTokens]_vars

(***************************************************************************)
(* Properties of the session.                                              *)
(***************************************************************************)

\* x reduced modulo 65536 and read as a signed 16 bit number.
short_int_wrapping(x) ==
    IF Low16(x) >= 32768 THEN Low16(x) - 65536 ELSE Low16(x)

\* The runtime state initialize_runtime_state leaves.
RuntimeStateReset ==
    /\ the_state = "LINE_STATE"
    /\ ip = 0
    /\ branch_ip = 0
    /\ callstack = <<>>
    /\ run_params = <<>>
    /\ mem = EmptyMap
    /\ one_shot_breakpoints = <<>>

\* The numbered lines typed in the session: the text, its line number and
\* the text without its trailing whitespace.
NumberedLines ==
    {<<"1 IF S=256 THEN GOSUB 32767", 1, "1 IF S=256 THEN GOSUB 32767">>,
     <<"1 IF S>0 IF S=256 GOTO 32767", 1, "1 IF S>0 IF S=256 GOTO 32767">>,
     <<"20 END  ", 20, "20 END">>,
     <<"32767 RETURN", 32767, "32767 RETURN">>}

\* The bare line numbers typed in the session, and the lines whose number
\* is not a line number.
BareNumbers == {<<"1", 1>>, <<"32767", 32767>>}
OutOfRange == {"0 END", "32768 END"}

\* interpret_line was called with the text and has returned.
Typed(text) == call'.op = "interpret_line" /\ call'.source = text

\* C1: every variable holds a number of -32768..32767, and after LET A=x
\* the variable A holds x reduced modulo 65536 and read as a signed 16 bit
\* number, for every integer x.
C1_ShortIntWraps ==
    /\ \A name \in DOMAIN symbol_table : symbol_table[name] \in -32768..32767
    /\ \A x \in ArithmeticValues :
          (call.op = "interpret_line" /\ call.source = LetSource(x)
              /\ call.returned)
          => /\ "A" \in DOMAIN symbol_table
             /\ symbol_table["A"] = short_int_wrapping(x)

\* C2: when interpret_line meets a syntax or runtime error it returns False;
\* met outside BreakState the error leaves the runtime state reset, met in
\* BreakState it leaves the state, the instruction pointer and the call
\* stack as they were; the failing statement changes no variable, no program
\* line and no breakpoint.
C2_ErrorResetsUnlessDebugging ==
    (call.op = "interpret_line" /\ call.at_raise # "")
    => /\ ~call.returned
       /\ (call.at_raise # "BREAK_STATE" => RuntimeStateReset)
       /\ (call.at_raise = "BREAK_STATE"
              => /\ the_state = "BREAK_STATE"
                 /\ ip = call.entry.ip
                 /\ callstack = call.entry.callstack)
       /\ symbol_table = call.entry.symbol_table
       /\ lines = call.entry.lines
       /\ breakpoints = call.entry.breakpoints

\* An error met at a breakpoint inside a subroutine.
C2_ErrorWhileDebugging ==
    /\ call.op = "interpret_line"
    /\ call.at_raise = "BREAK_STATE"
    /\ ~call.returned
    /\ ip # 0
    /\ callstack # <<>>

\* C3: interpret_buffer returns False exactly when a line of the buffer that
\* is not blank fails; then the program and the breakpoint set are empty and
\* the runtime state is reset when it returns.  The state on return is
\* LineState whatever happened.
C3_BufferFailureClears ==
    call.op = "interpret_buffer"
    => /\ the_state = "LINE_STATE"
       /\ call.raised = ""
             => /\ call.returned <=> call.failed = 0
                /\ call.failed > 0
                      => /\ lines = EmptyMap
                         /\ breakpoints = {}
                         /\ RuntimeStateReset

\* A buffer failed over a program with a breakpoint.
C3_FailedOverProgram ==
    /\ call.op = "interpret_buffer"
    /\ ~call.returned
    /\ call.failed > 0
    /\ call.entry.lines # EmptyMap
    /\ call.entry.breakpoints # {}
    /\ lines = EmptyMap

\* C4: once a line of a buffer has failed, no later line of the buffer is
\* executed or stored: it changes no variable, no program line, and runs no
\* program, also when a later line fails itself.
C4_NothingAfterFailure ==
    call.op = "interpret_buffer" => ~call.later_effect

\* Two lines of a buffer failed and the LET between them left S alone.
C4_LaterLinesSkipped ==
    /\ call.op = "interpret_buffer"
    /\ call.failed >= 2
    /\ call.trace = <<>>
    /\ "S" \in DOMAIN symbol_table
    /\ symbol_table["S"] = 256

\* What interpret_line does with a numbered line, a bare number and a line
\* whose number is out of range.
StoresLine(typed) ==
    Typed(typed[1])
    => /\ call'.returned
       /\ DOMAIN lines' = DOMAIN lines \cup {typed[2]}
       /\ lines'[typed[2]].source = typed[3]
       /\ \A n \in DOMAIN lines \ {typed[2]} : lines'[n] = lines[n]
       /\ call'.trace = <<>>
       /\ call'.out = <<>>
       /\ UNCHANGED <<symbol_table, breakpoints, breakpoints_enabled,
                      the_state, ip, branch_ip, callstack, run_params, mem,
                      one_shot_breakpoints>>
DeletesLine(typed) ==
    (Typed(typed[1]) /\ the_state # "BREAK_STATE")
    => /\ DOMAIN lines' = DOMAIN lines \ {typed[2]}
       /\ \A n \in DOMAIN lines' : lines'[n] = lines[n]
RejectsLine(text) ==
    Typed(text)
    => /\ ~call'.returned
       /\ call'.at_raise # ""
       /\ call'.out = <<"Syntax Error: \n">>
       /\ lines' = lines

\* C5: a numbered line with a statement is stored under its number, without
\* its trailing whitespace and without being executed, and nothing else
\* changes; a bare number outside BreakState removes that line only; a line
\* whose number is outside 1..32767 is a syntax error, and every line of the
\* program has a number of 1..32767.
C5_StoreAndDelete ==
    /\ [][(\A typed \in NumberedLines : StoresLine(typed))
          /\ (\A typed \in BareNumbers : DeletesLine(typed))
          /\ (\A text \in OutOfRange : RejectsLine(text))]_vars
    /\ [](DOMAIN lines \subseteq 1..MAX_LINE_NUMBER)

\* The line 20 END stored without the spaces typed after it.
C5_StoredStripped ==
    /\ call.op = "interpret_line"
    /\ call.source = "20 END  "
    /\ call.returned
    /\ 20 \in DOMAIN lines
    /\ lines[20].source = "20 END"
    /\ 1 \in DOMAIN lines

\* C6: get_program is the lines of the program in ascending order of their
\* numbers, each followed by a newline; clearing the program and loading
\* that text succeeds and gives a program with the same line numbers and
\* the same text for each line.
C6_RoundTrip ==
    call.op = "save_and_load"
    => /\ call.returned
       /\ DOMAIN lines = DOMAIN call.entry.lines
       /\ \A n \in DOMAIN lines : lines[n].source = call.entry.lines[n].source
       /\ Len(ReadLines(call.source)) = Cardinality(DOMAIN call.entry.lines)
       /\ \A n \in DOMAIN call.entry.lines :
             ReadLines(call.source)
                 [Cardinality({m \in DOMAIN call.entry.lines : m <= n})]
             = call.entry.lines[n].source \o "\n"

\* A program of three lines saved and loaded.
C6_ThreeLinesLoaded ==
    /\ call.op = "save_and_load"
    /\ DOMAIN call.entry.lines = {1, 20, 32767}
    /\ DOMAIN lines = {1, 20, 32767}

\* C7: set_breakpoint succeeds exactly on a line of the program that has no
\* breakpoint, and adds that line; delete_breakpoint succeeds exactly on a
\* line with a breakpoint, and removes that line; a call that fails returns
\* False with a text and leaves the breakpoints alone; after
\* delete_all_breakpoints there is no breakpoint.
C7_Breakpoints ==
    /\ call.op = "set_breakpoint"
       => /\ call.returned <=> /\ call.line_number \in DOMAIN call.entry.lines
                               /\ call.line_number \notin call.entry.breakpoints
          /\ call.returned
                => breakpoints = call.entry.breakpoints \cup {call.line_number}
          /\ ~call.returned
                => breakpoints = call.entry.breakpoints /\ call.text # ""
    /\ call.op = "delete_breakpoint"
       => /\ call.returned <=> call.line_number \in call.entry.breakpoints
          /\ call.returned
                => breakpoints = call.entry.breakpoints \ {call.line_number}
          /\ ~call.returned
                => breakpoints = call.entry.breakpoints /\ call.text # ""
    /\ call.op = "delete_all_breakpoints" => breakpoints = {}

\* One of two breakpoints deleted.
C7_OneOfTwoDeleted ==
    /\ call.op = "delete_breakpoint"
    /\ call.returned
    /\ call.line_number = 1
    /\ call.entry.breakpoints = {1, 20}
    /\ breakpoints = {20}

\* C8: a bare line number typed outside BreakState removes the breakpoint of
\* that line, if it has one, and no other breakpoint.
C8_DeleteLineDeletesBreakpoint ==
    [][\A typed \in BareNumbers :
          (Typed(typed[1]) /\ the_state # "BREAK_STATE")
          => breakpoints' = breakpoints \ {typed[2]}]_vars

\* Line 1 deleted with its breakpoint, the breakpoint of line 20 kept.
C8_BreakpointGoneWithLine ==
    /\ call.op = "interpret_line"
    /\ call.source = "1"
    /\ call.entry.breakpoints = {1, 20}
    /\ 1 \in DOMAIN call.entry.lines
    /\ 1 \notin DOMAIN lines
    /\ breakpoints = {20}

\* C9: a bare line number typed in BreakState deletes nothing: the program,
\* the breakpoints, the instruction pointer and the call stack are
\* unchanged, the state is still BreakState and CLE #09 is reported.
C9_NoDeleteWhileDebugging ==
    [][\A typed \in BareNumbers :
          (Typed(typed[1]) /\ the_state = "BREAK_STATE")
          => /\ UNCHANGED <<lines, breakpoints, ip, callstack, the_state>>
             /\ call'.returned
             /\ call'.out = <<"CLE #09: Deleting program lines while "
                              \o "debugging disabled.\n">>]_vars

\* The number of a line with a breakpoint typed at a breakpoint.
C9_LineKeptWhileDebugging ==
    /\ call.op = "interpret_line"
    /\ call.source = "1"
    /\ the_state = "BREAK_STATE"
    /\ call.out = <<"CLE #09: Deleting program lines while "
                    \o "debugging disabled.\n">>
    /\ 1 \in DOMAIN lines
    /\ 1 \in breakpoints

\* The lines with a conditional branch to line 32767.
ConditionalBranches ==
    {"1 IF S=256 THEN GOSUB 32767", "1 IF S>0 IF S=256 GOTO 32767"}

\* The line after line 1 in the program.
AfterLine1 == CHOOSE n \in DOMAIN lines \ {1} : \A m \in DOMAIN lines \ {1} : n <= m

\* C10: a step at a line IF cond THEN GOSUB target or IF .. IF cond GOTO
\* target, the target a line of the program, runs with the target and the
\* line after the IF in the one-shot list, and stops at the target when the
\* condition holds and at the line after the IF when it does not.
C10_StepOverConditionalBranch ==
    [][(/\ call'.op = "break_continue"
        /\ call'.source = "STEP"
        /\ ip = 1
        /\ {1, 32767} \subseteq DOMAIN lines
        /\ lines[1].source \in ConditionalBranches
        /\ "S" \in DOMAIN symbol_table)
       => /\ {32767, AfterLine1} \subseteq SeqToSet(call'.shots)
          /\ the_state' = "BREAK_STATE"
          /\ ip' = IF symbol_table["S"] = 256 THEN 32767 ELSE AfterLine1]_vars

\* A step over the nested IF stopped at the target of its GOTO.
C10_SteppedToTarget ==
    /\ call.op = "break_continue"
    /\ call.source = "STEP"
    /\ call.trace = <<1>>
    /\ call.shots = <<32767, 20>>
    /\ the_state = "BREAK_STATE"
    /\ ip = 32767
    /\ 1 \in DOMAIN lines
    /\ lines[1].source = "1 IF S>0 IF S=256 GOTO 32767"

\* The last element of a sequence that is not empty.
Last(seq) == seq[Len(seq)]

\* The lines that branch to a line the session never stores (S is 256).
MissingBranches == {"30 GOTO 40", "30 GOSUB S"}
MissingBranchError(source) ==
    IF source = "30 GOTO 40"
    THEN "Runtime Error: Error #046: GOTO subroutine does not exist '40'.\n"
    ELSE "Runtime Error: Error #046: GOSUB subroutine does not exist '256'.\n"

\* The i-th line a call executed branches to a line that is not there.
RanMissingBranch(i) ==
    /\ call.trace[i] \in DOMAIN call.entry.lines
    /\ call.entry.lines[call.trace[i]].source \in MissingBranches
    /\ "S" \in DOMAIN call.entry.symbol_table
    /\ call.entry.symbol_table["S"] = 256

\* C11: when a program run through interpret_line executes a GOTO or GOSUB
\* to a line that is not in the program, the run ends there with the
\* runtime error, with nothing pushed on the call stack and no branch
\* pending when it is raised; interpret_line returns False, the runtime
\* state is reset and the program is unchanged.
C11_BranchToMissingLine ==
    call.op = "interpret_line"
    => \A i \in 1..Len(call.trace) :
          RanMissingBranch(i)
          => /\ i = Len(call.trace)
             /\ ~call.returned
             /\ call.at_raise = "RUNNING_STATE"
             /\ call.thrown.callstack = call.entry.callstack
             /\ call.thrown.branch_ip = 0
             /\ call.out # <<>>
             /\ Last(call.out)
                   = MissingBranchError(call.entry.lines[call.trace[i]].source)
             /\ RuntimeStateReset
             /\ lines = call.entry.lines

\* A subroutine called from line 10 ran into a GOSUB to a missing line.
C11_MissingGosubInSubroutine ==
    /\ call.op = "interpret_line"
    /\ call.source = "RUN"
    /\ call.trace = <<10, 30>>
    /\ call.entry.callstack = <<20>>
    /\ RanMissingBranch(2)
    /\ call.entry.lines[30].source = "30 GOSUB S"
    /\ ~call.returned

\* The call printed the text.
Printed(text) == \E i \in 1..Len(call.out) : call.out[i] = text

\* The lines of the session that neither branch nor end the run.
PlainLines == {"10 LET A=7", "30 LET A=1"}

\* The call ran a program, and the line it executed last is the last line
\* of the program and a plain one.
RanOffTheEnd ==
    /\ call.op \in {"interpret_line", "break_continue"}
    /\ call.trace # <<>>
    /\ Last(call.trace) \in DOMAIN call.entry.lines
    /\ \A n \in DOMAIN call.entry.lines : n <= Last(call.trace)
    /\ call.entry.lines[Last(call.trace)].source \in PlainLines

\* C12: a run that executes the last line of the program with no branch
\* pending and without END ends with the error #335 and the runtime state
\* reset, and the error is reported for no other run, never for one that
\* ended through END.
C12_MissingEnd ==
    /\ RanOffTheEnd
       => /\ Printed("Error #335: No END in the program.\n")
          /\ RuntimeStateReset
    /\ Printed("Error #335: No END in the program.\n")
       => /\ RanOffTheEnd
          /\ \A i \in 1..Len(call.trace) :
                call.entry.lines[call.trace[i]].source # "20 END"

\* A subroutine without RETURN ran off the end of the program.
C12_SubroutineRanOffTheEnd ==
    /\ RanOffTheEnd
    /\ call.source = "RUN"
    /\ call.trace = <<10, 30>>
    /\ call.entry.callstack = <<20>>
    /\ 20 \in DOMAIN lines
    /\ Printed("Error #335: No END in the program.\n")
    /\ callstack = <<>>

\* The call ran a program that executed END.
RanEnd ==
    /\ call.op \in {"interpret_line", "break_continue"}
    /\ call.trace # <<>>
    /\ Last(call.trace) \in DOMAIN call.entry.lines
    /\ call.entry.lines[Last(call.trace)].source = "20 END"

\* C13: an END executed by a running program ends the run with the runtime
\* state reset, and an END typed while the interpreter is in BreakState
\* leaves BreakState: afterwards at_breakpoint() is False and the runtime
\* state is reset.
C13_EndLeavesDebugger ==
    /\ [](RanEnd => RuntimeStateReset)
    /\ [][(/\ call'.op = "interpret_line"
           /\ call'.source = "END"
           /\ the_state = "BREAK_STATE")
          => /\ ~at_breakpoint(Self)'
             /\ RuntimeStateReset']_vars

\* The call executed no assignment: it ran no line that assigns.
AssignedNothing ==
    \A i \in 1..Len(call'.trace) :
        lines[call'.trace[i]].source \notin PlainLines

\* C14: a call that executes no assignment and is not CLEAR changes no
\* variable, whatever it does to the runtime state; after CLEAR every
\* variable is uninitialized; S is 256 after construction and keeps its
\* value in every call but CLEAR (the session never assigns to S).
C14_VariablesOutliveRuntimeState ==
    /\ symbol_table_get(symbol_table, "S") = SymbolInfo(TRUE, 256)
    /\ [][/\ (call'.op = "interpret_line" /\ call'.source = "CLEAR")
             => \A name \in {"A", "S"} :
                   ~symbol_table_get(symbol_table', name).initialized
          /\ (call'.source # "CLEAR" /\ AssignedNothing)
             => symbol_table' = symbol_table
          /\ call'.source # "CLEAR"
             => symbol_table_get(symbol_table', "S")
                   = symbol_table_get(symbol_table, "S")]_vars

\* The call stopped at the breakpoint of the line: what _hit_breakpoint
\* prints is the last the call printed.
StoppedAtBreakpoint(line) ==
    /\ Len(call.out) >= 2
    /\ call.out[Len(call.out) - 1] = "Breakpoint: " \o IntToStr(line) \o "\n"

\* C20: a run that reaches a line with a breakpoint stops before it
\* executes the line: the state is BreakState, current_line_number() is the
\* line, and the line has had no effect (it is not among the lines
\* executed; a run stopped at its first line has changed no variable, and
\* its call stack is the one the run started with: the one before the call,
\* or the empty one when RUN restarted a running program).  A line with a
\* breakpoint is executed only as the first line of a resume from the stop
\* on it.
C20_StopsBeforeBreakpointLine ==
    /\ [](call.op \in {"interpret_line", "break_continue"}
          => /\ \A i \in 1..Len(call.trace) :
                   call.trace[i] \in breakpoints
                   => call.op = "break_continue" /\ i = 1
             /\ \A line \in RunBreakpointLines :
                   Printed("Breakpoint: " \o IntToStr(line) \o "\n")
                   => /\ StoppedAtBreakpoint(line)
                      /\ line \in breakpoints
                      /\ at_breakpoint(Self)
                      /\ current_line_number(Self) = line
                      /\ Last(call.out) = "[" \o lines[line].source \o "]\n")
    /\ [][/\ (call'.op = "break_continue" /\ call'.trace # <<>>)
             => /\ the_state = "BREAK_STATE"
                /\ call'.trace[1] = ip
          /\ (call'.op = "interpret_line" /\ call'.trace = <<>>
                 /\ Len(call'.out) = 2
                 /\ \E line \in RunBreakpointLines :
                        call'.out[1] = "Breakpoint: " \o IntToStr(line) \o "\n")
             => /\ symbol_table' = symbol_table
                /\ callstack' = IF the_state = "RUNNING_STATE"
                                THEN <<>> ELSE callstack]_vars

\* A run stopped in the subroutine, before the line 30 with the breakpoint.
C20_StoppedInSubroutine ==
    /\ call.op = "interpret_line"
    /\ call.source = "RUN"
    /\ call.trace = <<10>>
    /\ StoppedAtBreakpoint(30)
    /\ 30 \in breakpoints
    /\ the_state = "BREAK_STATE"
    /\ ip = 30
    /\ callstack = <<20>>

\* The values of the arguments of the RUN commands of the session that reads
\* input, and the variables its program lines ask for.
RunArguments(source) ==
    CASE source = "RUN 1" -> <<1>>
      [] source = "RUN 2,3" -> <<2, 3>>
      [] source = "RUN 4,5,6,7" -> <<4, 5, 6, 7>>
      [] OTHER -> <<>>
InputVariables(source) ==
    CASE source = "10 INPUT A,B" -> <<"A", "B">>
      [] source = "20 INPUT C" -> <<"C">>
      [] OTHER -> <<>>
PromptsNaming(name) ==
    CASE name = "A" -> {"[A,B]? "}
      [] name = "B" -> {"[A,B]? ", "[B]? "}
      [] OTHER -> {"[C]? "}

\* The variables the lines of a trace ask for, in the order they are asked.
RECURSIVE Requested(_, _)
Requested(program, trace) ==
    IF trace = <<>>
    THEN <<>>
    ELSE InputVariables(program[Head(trace)].source)
             \o Requested(program, Tail(trace))

\* C15: after a direct-execution RUN with arguments a1..an ran the program,
\* the k-th variable its INPUT statements asked for holds ak for every k up
\* to n, no prompt names one of these variables, the first prompt (there is
\* one when more than n variables were asked for) names the variable after
\* the n-th, and no argument is left: a RUN without arguments prompts for the
\* first variable of its first INPUT.
C15_RunArguments ==
    (call.op = "interpret_line" /\ call.source \in InputSources
        /\ SubSeq(call.source, 1, 3) = "RUN" /\ call.trace # <<>>)
    => LET args == RunArguments(call.source)
           requested == Requested(call.entry.lines, call.trace)
           given == IF Len(args) < Len(requested)
                    THEN Len(args) ELSE Len(requested)
       IN  /\ \A k \in 1..given :
                 /\ requested[k] \in DOMAIN symbol_table
                 /\ symbol_table[requested[k]] = args[k]
                 /\ \A i \in 1..Len(call.prompts) :
                       call.prompts[i] \notin PromptsNaming(requested[k])
           /\ Len(requested) > Len(args)
              => /\ call.prompts # <<>>
                 /\ call.prompts[1] \in PromptsNaming(requested[Len(args) + 1])
           /\ Len(requested) <= Len(args) => call.prompts = <<>>
           /\ run_params = <<>>

\* RUN 2,3 gave A and B their values and the user was asked for C only.
C15_PromptedForTheThird ==
    /\ call.op = "interpret_line"
    /\ call.source = "RUN 2,3"
    /\ call.trace = <<10, 20, 30>>
    /\ call.prompts = <<"[C]? ">>
    /\ call.raised = ""
    /\ DOMAIN symbol_table = {"S", "A", "B", "C"}
    /\ symbol_table["A"] = 2
    /\ symbol_table["B"] = 3
    /\ symbol_table["C"] = 8
    /\ run_params = <<>>

\* The bounds given to the LIST commands of the session that lists.
ListBounds(source) ==
    CASE source = "LIST 1" -> <<1>>
      [] source = "LIST 10" -> <<10>>
      [] source = "LIST 15" -> <<15>>
      [] source = "LIST 32767" -> <<32767>>
      [] source = "LIST 1,20" -> <<1, 20>>
      [] source = "LIST 10,20" -> <<10, 20>>
      [] source = "LIST 10,32767" -> <<10, 32767>>
      [] source = "LIST 20,10" -> <<20, 10>>
      [] source = "LIST 0,10" -> <<0, 10>>
      [] source = "LIST 10,32768" -> <<10, 32768>>
      [] OTHER -> <<>>

\* The stored lines from low to high, in ascending order, as printed.
Listing(program, low, high) ==
    LET numbers == SortedKeys({n \in DOMAIN program : low <= n /\ n <= high})
    IN  [i \in 1..Len(numbers) |-> program[numbers[i]].source \o "\n"]

\* What LIST with the given bounds is to print; <<>> stands for the error.
ListIsError(bounds) ==
    LET low == IF Len(bounds) >= 1 THEN bounds[1] ELSE 1
        high == IF Len(bounds) = 2 THEN bounds[2] ELSE 32767
    IN  ~(low < high /\ 1 <= low /\ low <= 32767 /\ 1 <= high /\ high <= 32767)
ListPrints(program, bounds) ==
    LET low == IF Len(bounds) >= 1 THEN bounds[1] ELSE 1
        high == IF Len(bounds) = 2 THEN bounds[2] ELSE 32767
    IN  IF Len(bounds) = 1 /\ low \in DOMAIN program
        THEN <<program[low].source \o "\n">>
        ELSE Listing(program, low, high)

\* C16: LIST fails with a runtime error unless low < high and both bounds are
\* within 1..32767 (an omitted bound being 1 or 32767); otherwise it prints
\* exactly the one line named when exactly one bound was given and that line
\* is stored, and all stored lines from low to high in ascending order in
\* every other case, whatever the values of the bounds.
C16_ListBounds ==
    (call.op = "interpret_line" /\ call.source \in ListCommands)
    => IF ListIsError(ListBounds(call.source))
       THEN /\ ~call.returned
            /\ call.out # <<>>
            /\ SubSeq(call.out[1], 1, 23) = "Runtime Error: Error #3"
       ELSE /\ call.returned
            /\ call.out = ListPrints(lines, ListBounds(call.source))

\* The statement of a stored line, and the statement that is reached through
\* the THENs of an IF.
Statement(n) == lines[n].data[2]
RECURSIVE Innermost(_)
Innermost(node) == IF node.k = "If" THEN Innermost(node.branch) ELSE node

\* The variables a statement reads and the variables it assigns.
RECURSIVE ReadsOf(_)
ReadsOf(node) ==
    CASE node.k = "Variable" -> {node.name}
      [] node.k \in {"Unary", "Group", "Random"} -> ReadsOf(node.expression)
      [] node.k = "Binary" -> ReadsOf(node.lhs) \cup ReadsOf(node.rhs)
      [] node.k = "Print" ->
            UNION {ReadsOf(node.expressions[i]) :
                      i \in 1..Len(node.expressions)}
      [] node.k = "Let" -> ReadsOf(node.assign.expression)
      [] node.k \in {"Goto", "Gosub"} -> ReadsOf(node.target)
      [] node.k = "If" ->
            ReadsOf(node.lhs) \cup ReadsOf(node.rhs) \cup ReadsOf(node.branch)
      [] OTHER -> {}
RECURSIVE AssignsOf(_)
AssignsOf(node) ==
    CASE node.k = "Let" -> {node.assign.variable.name}
      [] node.k = "Input" ->
            {node.variables[i].name : i \in 1..Len(node.variables)}
      [] node.k = "If" -> AssignsOf(node.branch)
      [] OTHER -> {}

\* The reads of a variable at a line that no earlier line assigns, and the
\* variables assigned anywhere.
UninitializedReads ==
    {<<n, name>> \in (DOMAIN lines) \X {"A", "B"} :
        /\ name \in ReadsOf(Statement(n))
        /\ \A m \in DOMAIN lines : m < n => name \notin AssignsOf(Statement(m))}
AssignedAnywhere == UNION {AssignsOf(Statement(n)) : n \in DOMAIN lines}

\* What the linter reported: the uninitialized reads, and an error by its
\* line and text.
UninitializedMessage(name) ==
    "LINT #04: Potentially uninitialized variable '" \o name \o "'.\n"
ReportedReads ==
    {<<n, name>> \in (DOMAIN lines) \X {"A", "B"} :
        \E i \in 1..Len(call.errorlist) :
            call.errorlist[i] = ErrorItem(n, UninitializedMessage(name))}
Reported(n, msg) ==
    \E i \in 1..Len(call.errorlist) : call.errorlist[i] = ErrorItem(n, msg)
MissingEndMessage == "LINT #01: Missing END statement in the program.\n"

\* C17: the linter in strict mode reports every read of a variable at a line
\* that no earlier line assigns by LET or INPUT (a LET reads its right-hand
\* side before it assigns) and no other read; in non-strict mode it reports
\* those of them whose variable is assigned nowhere in the program.  The
\* errors are printed in ascending order of their lines, the missing END
\* last.
C17_UninitializedVariables ==
    call.op = "lint_program"
    => /\ ReportedReads
             = IF call.source = "strict"
               THEN UninitializedReads
               ELSE {read \in UninitializedReads :
                        read[2] \notin AssignedAnywhere}
       /\ call.out = [i \in 1..Len(call.errorlist) |-> call.errorlist[i].msg]
       /\ \A i, j \in 1..Len(call.errorlist) :
             i < j => call.errorlist[i].line <= call.errorlist[j].line
       /\ \A i \in 1..Len(call.errorlist) :
             call.errorlist[i].msg = MissingEndMessage
             => i = Len(call.errorlist)

\* C18: the linter reports every line whose statement, directly or after the
\* THENs of an IF, is a CLEAR, or a GOTO or GOSUB to a literal line number
\* that is not in the program, and reports the missing END when no line of
\* the program has an END.
C18_ClearAndBranchTargets ==
    (call.op = "lint_program" /\ DOMAIN lines # {})
    => /\ \A n \in DOMAIN lines :
             /\ Innermost(Statement(n)).k = "Clear"
                => Reported(n, "LINT #02: CLEAR must never be in a program.\n")
             /\ (/\ Innermost(Statement(n)).k \in {"Goto", "Gosub"}
                 /\ Innermost(Statement(n)).target.k = "Literal"
                 /\ Innermost(Statement(n)).target.value \notin DOMAIN lines)
                => Reported(n, "LINT #03: "
                       \o (IF Innermost(Statement(n)).k = "Goto"
                           THEN "GOTO" ELSE "GOSUB")
                       \o " target not in program: '"
                       \o IntToStr(Innermost(Statement(n)).target.value)
                       \o "'.\n")
       /\ (\A n \in DOMAIN lines : Innermost(Statement(n)).k # "End")
          => Reported(32767, MissingEndMessage)

\* C19: the tree the parser builds from the tokens of a well-formed
\* expression is the tree the grammar gives them, all tokens consumed:
\* '*' and '/' bind tighter than binary '+' and '-', a sign binds tighter
\* than '*' and '/', operators of one level associate to the left and
\* parentheses override.
C19_GrammarTree ==
    call.op = "_expression"
    => /\ ~call.parsed.err
       /\ call.parsed.pos = Len(call.tokens) - 1
       /\ call.parsed.node = call.grammar

\* A-A/A*A parsed as A-((A/A)*A).
C19_DifferenceOfProduct ==
    /\ call.op = "_expression"
    /\ Len(call.tokens) = 8
    /\ call.tokens[2].tt = "MINUS"
    /\ call.tokens[4].tt = "SLASH"
    /\ call.tokens[6].tt = "STAR"
    /\ call.parsed.node
          = Binary(Variable("A"), "MINUS",
                   Binary(Binary(Variable("A"), "SLASH", Variable("A")),
                          "STAR", Variable("A")))

\* C21: break_continue from a stop at line L executes L first, without
\* stopping on it, and checks the breakpoints before every line after it:
\* no line executed after the first has a breakpoint, so a line L with a
\* breakpoint is executed exactly once, and when control comes back to it
\* the call ends stopped on it.
C21_ResumeExecutesStoppedLineOnce ==
    [][call'.op = "break_continue"
       => /\ call'.trace # <<>>
          /\ call'.trace[1] = ip
          /\ \A i \in 2..Len(call'.trace) : call'.trace[i] \notin breakpoints
          /\ ip \in breakpoints
             => Cardinality({i \in 1..Len(call'.trace) : call'.trace[i] = ip}) = 1
          /\ (lines[ip].source = "10 GOTO 10" /\ 10 \in breakpoints)
             => /\ call'.trace = <<10>>
                /\ the_state' = "BREAK_STATE"
                /\ ip' = 10
                /\ call'.out = <<"Breakpoint: 10\n", "[10 GOTO 10]\n">>]_vars

\* A CONTINUE from the stop on the breakpoint of '10 GOTO 10' has executed
\* the line and stopped on it again.
C21_StoppedAgainOnLoop ==
    /\ call.op = "break_continue"
    /\ call.source = "RUN"
    /\ call.trace = <<10>>
    /\ call.entry.ip = 10
    /\ 10 \in breakpoints
    /\ lines[10].source = "10 GOTO 10"
    /\ the_state = "BREAK_STATE"
    /\ ip = 10

\* C22: a STEP from a stop at a RETURN adds exactly one one-shot breakpoint,
\* the address on top of the call stack, executes the RETURN and stops at
\* that address; with an empty call stack it reports CLE #11 and adds no
\* one-shot.
C22_StepAtReturn ==
    [][(call'.op = "break_continue" /\ call'.source = "STEP"
           /\ lines[ip].data[2].k = "Return")
       => IF callstack # <<>>
          THEN /\ call'.shots = Append(one_shot_breakpoints, Last(callstack))
               /\ call'.trace = <<ip>>
               /\ the_state' = "BREAK_STATE"
               /\ ip' = Last(callstack)
               /\ callstack' = SubSeq(callstack, 1, Len(callstack) - 1)
          ELSE /\ call'.shots = one_shot_breakpoints
               /\ call'.out # <<>>
               /\ call'.out[1] = "CLE #11: RETURN call stack is empty."]_vars

\* A STEP at the RETURN of line 30, which line 40 follows, has stopped at
\* the return address 20, which has no breakpoint.
C22_SteppedToReturnAddress ==
    /\ call.op = "break_continue"
    /\ call.source = "STEP"
    /\ call.trace = <<30>>
    /\ call.shots = <<20>>
    /\ lines[30].source = "30 RETURN"
    /\ 40 \in DOMAIN lines
    /\ 20 \notin breakpoints
    /\ the_state = "BREAK_STATE"
    /\ ip = 20
    /\ callstack = <<>>

\* The call reported a runtime error as the last thing it printed.
ReportedRuntimeError ==
    /\ call.out # <<>>
    /\ Len(Last(call.out)) > 15
    /\ SubSeq(Last(call.out), 1, 15) = "Runtime Error: "

\* C23: when the line break_continue executes raises a runtime error, the
\* error is reported and nothing is reset: the instruction pointer names
\* the failing line, the call stack and the variables are those the line
\* started with, and the program and the breakpoints are those before the
\* call.
C23_DebuggerErrorKeepsState ==
    [][(call'.op = "break_continue" /\ ReportedRuntimeError')
       => /\ call'.trace # <<>>
          /\ ip' = Last(call'.trace)
          /\ callstack' = call'.entry.callstack
          /\ symbol_table' = call'.entry.symbol_table
          /\ lines' = lines
          /\ breakpoints' = breakpoints]_vars

\* A CONTINUE from the stop at line 30 in the subroutine called from line 10
\* failed on the GOTO to the missing line 40: the interpreter is still at
\* line 30 with the return address on the call stack.
C23_FailedInSubroutine ==
    /\ call.op = "break_continue"
    /\ ReportedRuntimeError
    /\ call.trace = <<30>>
    /\ lines[30].source = "30 GOTO 40"
    /\ ip = 30
    /\ callstack = <<20>>
    /\ 30 \in breakpoints

\* The line after line n of the stored program, 0 after the last.
Following(n) ==
    IF \E k \in DOMAIN lines : k > n
    THEN CHOOSE k \in DOMAIN lines : k > n /\ \A j \in DOMAIN lines : j > n => k <= j
    ELSE 0

\* The call stack that the lines executed one after the other leave, begun
\* with the given stack, when every GOSUB pushes the line following its own
\* line and every RETURN pops the last address pushed.
RECURSIVE StackAfter(_, _)
StackAfter(executed, stack) ==
    IF executed = <<>> THEN stack
    ELSE LET kind == Innermost(Statement(executed[1])).k
         IN  StackAfter(Tail(executed),
                 IF kind = "Gosub" THEN Append(stack, Following(executed[1]))
                 ELSE IF kind = "Return" /\ stack # <<>>
                 THEN SubSeq(stack, 1, Len(stack) - 1)
                 ELSE stack)

\* The line control goes to after the i-th line executed, with the stack the
\* lines before it left.
ControlAfter(executed, i, begun) ==
    LET n == executed[i]
        node == Innermost(Statement(n))
        stack == StackAfter(SubSeq(executed, 1, i - 1), begun)
    IN  IF node.k = "Gosub" THEN node.target.value
        ELSE IF node.k = "Return" THEN Last(stack)
        ELSE Following(n)

\* The call ran the program or went on running it.
RanProgram ==
    \/ call.op = "break_continue"
    \/ call.op = "interpret_line" /\ call.source = "RUN"

\* The call ran the program and is stopped in it.
StoppedInRun ==
    /\ RanProgram
    /\ call.returned
    /\ the_state = "BREAK_STATE"

\* C24: in a run every GOSUB to an existing line pushes the line following
\* its own line, also after THEN, and branches to its target; every RETURN
\* pops the last address pushed and branches to it; so where the run stops
\* the call stack is the one these pushes and pops leave since the run
\* started, as deep as the GOSUBs executed less the RETURNs executed.  A
\* GOSUB on the last line of the program and a RETURN with nothing pushed
\* are runtime errors.
C24_CallStackDiscipline ==
    [][LET executed == call'.trace
           begun == IF call'.op = "break_continue" THEN callstack ELSE <<>>
           gosubs == {i \in DOMAIN executed :
                        Innermost(Statement(executed[i])).k = "Gosub"}
           returns == {i \in DOMAIN executed :
                         Innermost(Statement(executed[i])).k = "Return"}
       IN  /\ RanProgram'
              => \A i \in 1..(Len(executed) - 1) :
                    ControlAfter(executed, i, begun) = executed[i + 1]
           /\ StoppedInRun'
              => /\ callstack' = StackAfter(executed, begun)
                 /\ Len(callstack')
                       = Len(begun) + Cardinality(gosubs) - Cardinality(returns)
                 /\ executed # <<>>
                    => ControlAfter(executed, Len(executed), begun) = ip'
           /\ (call'.op = "break_continue" /\ ReportedRuntimeError'
                  /\ executed # <<>>)
              => LET node == Innermost(Statement(Last(executed)))
                     stack == call'.entry.callstack
                 IN  /\ (node.k = "Gosub" /\ node.target.value \in DOMAIN lines)
                        => /\ Following(Last(executed)) = 0
                           /\ callstack' = stack
                           /\ Last(call'.out) = "Runtime Error: Error #345: "
                                 \o "GOSUB return address is invalid.\n"
                     /\ node.k = "Return"
                        => /\ stack = <<>>
                           /\ callstack' = <<>>]_vars

\* The USR call of an assignment typed: its routine, address and byte.
UsrOf(source) ==
    LET usr == ParseTable[source].statements[1].assign.expression
    IN  [routine |-> usr.subroutine.value,
         address |-> usr.x_reg.value,
         byte |-> IF usr.a_reg.k = "Literal" THEN usr.a_reg.value
                  ELSE IF usr.a_reg.k = "Unary" THEN -usr.a_reg.expression.value
                  ELSE 0]

\* C25: a USR write of a byte from 0 to 256 stores it and returns it, a
\* later read returns it and the other addresses keep their values; a write
\* of a byte outside this range is runtime error #362 and leaves the memory
\* as it was; a read of an address never written returns 0; no accepted
\* byte, 256 included, ends in an exception that is no error of the
\* interpreter.
C25_UsrMemory ==
    [][(call'.op = "interpret_line" /\ call'.source \in UsrSources)
       => LET usr == UsrOf(call'.source)
              kept(addresses) ==
                  \A address \in addresses :
                      read_memory(mem', address) = read_memory(mem, address)
          IN  IF usr.routine = READ_ROUTINE
              THEN /\ call'.returned
                   /\ symbol_table'["A"] = read_memory(mem, usr.address)
                   /\ mem = EmptyMap => symbol_table'["A"] = 0
                   /\ kept(UsrAddresses)
              ELSE IF usr.byte \in MIN_BYTE..MAX_BYTE
              THEN /\ call'.raised = ""
                   /\ call'.returned
                   /\ symbol_table'["A"] = usr.byte
                   /\ read_memory(mem', usr.address) = usr.byte
                   /\ kept(UsrAddresses \ {usr.address})
              ELSE /\ ~call'.returned
                   /\ call'.out # <<>>
                   /\ SubSeq(call'.out[1], 1, 26) = "Runtime Error: Error #362:"
                   /\ kept(UsrAddresses)]_vars

\* C26: whatever interpret_line, interpret_buffer, set_breakpoint,
\* delete_breakpoint, delete_all_breakpoints, break_continue and
\* clear_program were called with, every line with a breakpoint is a line
\* of the stored program.
C26_BreakpointsOnStoredLines == breakpoints \subseteq DOMAIN lines

\* CLEAR was typed when two lines had breakpoints: the program and the
\* breakpoints are gone.
C26_ClearedWithBreakpoints ==
    /\ call.op = "interpret_line"
    /\ call.source = "CLEAR"
    /\ {1, 20} \subseteq call.entry.breakpoints
    /\ DOMAIN lines = {}
    /\ breakpoints = {}

\* C27: between the calls of its public operations the interpreter is in
\* LineState or in BreakState, also after break_continue reported an error
\* of the line it executed.
C27_LineStateOrBreakState == the_state \in {"LINE_STATE", "BREAK_STATE"}

\* C28: whenever the interpreter is stopped in BreakState, at a one-shot
\* breakpoint or at a breakpoint the user set, no one-shot breakpoint is
\* left.
C28_NoOneShotsWhenStopped ==
    the_state = "BREAK_STATE" => one_shot_breakpoints = <<>>

\* C29: a STEP executes exactly one line of the program, whatever the
\* statement of the line is, IF with RETURN after THEN included.
C29_StepExecutesOneLine ==
    [][(call'.op = "break_continue" /\ call'.source = "STEP")
       => /\ call'.trace = <<ip>>
          /\ (Statement(ip).k = "If" /\ Innermost(Statement(ip)).k = "Return"
                /\ callstack # <<>>)
             => /\ the_state' = "BREAK_STATE"
                /\ ip' = Last(callstack)]_vars

\* The call printed a syntax error or a runtime error.
ReportedError ==
    \E i \in DOMAIN call.out :
        /\ Len(call.out[i]) > 14
        /\ \/ SubSeq(call.out[i], 1, 14) = "Syntax Error: "
           \/ SubSeq(call.out[i], 1, 15) = "Runtime Error: "

\* C30: interpret_line returns True or False for every source line and
\* state, and what fails in it is reported as a syntax error or a runtime
\* error and makes it return False: no other exception leaves it.
C30_InterpretLineTotal ==
    call.op = "interpret_line"
    => /\ call.raised = ""
       /\ call.returned \in BOOLEAN
       /\ ~call.returned => ReportedError

=============================================================================
